---- MODULE Spec2Model ----
(***************************************************************************)
(* Model of archiver.ts (src/unnamed/part_001): the .bunz directory        *)
(* archiver.  Strings are sequences of Unicode code points, byte buffers   *)
(* are sequences of 0..255, and the file system is a set of directories    *)
(* plus a map from path to file content.  Path handling is the POSIX       *)
(* flavour of node:path.                                                   *)
(* Further sections model the gzip extractor (src/unnamed/part_000) and    *)
(* the web viewer (src/js/app.js).                                         *)
(*                                                                         *)
(* Where the source binds a value with const and uses it several times,    *)
(* the model passes the value to an operator as a parameter.               *)
(***************************************************************************)
EXTENDS Integers, Sequences, FiniteSets, TLC

(***************************************************************************)
(* Bounds of the model.                                                    *)
(***************************************************************************)
MaxFiles == 2         \* files in one input mapping / directory tree
MaxNow == 1           \* clock readings 0..MaxNow (ms since the epoch)

(***************************************************************************)
(* Generic helpers.                                                        *)
(***************************************************************************)
\* the concatenation of a sequence of sequences (by halves, to keep the
\* evaluation shallow)
RECURSIVE ConcatAll(_)
ConcatAll(ss) ==
    IF Len(ss) = 0 THEN <<>>
    ELSE IF Len(ss) = 1 THEN ss[1]
    ELSE ConcatAll(SubSeq(ss, 1, Len(ss) \div 2))
         \o ConcatAll(SubSeq(ss, (Len(ss) \div 2) + 1, Len(ss)))

Range(s) == {s[i] : i \in 1..Len(s)}

Min(a, b) == IF a < b THEN a ELSE b

Abs(x) == IF x < 0 THEN -x ELSE x

\* the least element of a non-empty set of integers
Least(S) == CHOOSE i \in S : \A j \in S : i <= j

\* s.slice(from, to) / subarray(from, to): 0-based, end-exclusive, clamped
Slice(s, from, to) ==
    IF Min(to, Len(s)) <= Min(from, Len(s)) THEN <<>>
    ELSE SubSeq(s, Min(from, Len(s)) + 1, Min(to, Len(s)))

(***************************************************************************)
(* TextEncoder / TextDecoder (UTF-8).                                      *)
(***************************************************************************)
\* UTF-8 bytes of one code point; an unpaired surrogate becomes U+FFFD
Utf8Of(cp) ==
    IF cp < 128 THEN <<cp>>
    ELSE IF cp < 2048 THEN <<192 + (cp \div 64), 128 + (cp % 64)>>
    ELSE IF cp >= 55296 /\ cp <= 57343 THEN <<239, 191, 189>>
    ELSE IF cp < 65536
         THEN <<224 + (cp \div 4096), 128 + ((cp \div 64) % 64), 128 + (cp % 64)>>
    ELSE <<240 + (cp \div 262144), 128 + ((cp \div 4096) % 64),
           128 + ((cp \div 64) % 64), 128 + (cp % 64)>>

\* new TextEncoder().encode(text)
textToUint8Array(text) == ConcatAll([i \in 1..Len(text) |-> Utf8Of(text[i])])

\* number of continuation bytes the lead byte x asks for (0: not a lead byte)
Utf8Need(x) ==
    IF x >= 194 /\ x <= 223 THEN 1
    ELSE IF x >= 224 /\ x <= 239 THEN 2
    ELSE IF x >= 240 /\ x <= 244 THEN 3
    ELSE 0

\* is b[i+k] an acceptable k-th continuation byte after the lead byte b[i]
Utf8ContOk(b, i, k) ==
    /\ i + k <= Len(b)
    /\ b[i + k] >= (IF k > 1 THEN 128
                    ELSE IF b[i] = 224 THEN 160 ELSE IF b[i] = 240 THEN 144 ELSE 128)
    /\ b[i + k] <= (IF k > 1 THEN 191
                    ELSE IF b[i] = 237 THEN 159 ELSE IF b[i] = 244 THEN 143 ELSE 191)

\* how many of the need continuation bytes after b[i] are acceptable
Utf8Good(b, i, need) ==
    IF ~Utf8ContOk(b, i, 1) THEN 0
    ELSE IF need = 1 \/ ~Utf8ContOk(b, i, 2) THEN 1
    ELSE IF need = 2 \/ ~Utf8ContOk(b, i, 3) THEN 2
    ELSE 3

\* the code point of the complete sequence of need + 1 bytes at b[i]
Utf8CodePoint(b, i, need) ==
    IF need = 1 THEN (b[i] - 192) * 64 + (b[i + 1] - 128)
    ELSE IF need = 2
         THEN (b[i] - 224) * 4096 + (b[i + 1] - 128) * 64 + (b[i + 2] - 128)
    ELSE (b[i] - 240) * 262144 + (b[i + 1] - 128) * 4096
         + (b[i + 2] - 128) * 64 + (b[i + 3] - 128)

\* the WHATWG UTF-8 decoder with replacement, from b[i] on: a malformed or
\* cut sequence yields one U+FFFD and decoding resumes at the offending byte
RECURSIVE Utf8Decode(_, _), Utf8DecodeSeq(_, _, _, _)
Utf8Decode(b, i) ==
    IF i > Len(b) THEN <<>>
    ELSE IF b[i] < 128 THEN <<b[i]>> \o Utf8Decode(b, i + 1)
    ELSE IF Utf8Need(b[i]) = 0 THEN <<65533>> \o Utf8Decode(b, i + 1)
    ELSE Utf8DecodeSeq(b, i, Utf8Need(b[i]), Utf8Good(b, i, Utf8Need(b[i])))

Utf8DecodeSeq(b, i, need, good) ==
    IF good = need THEN <<Utf8CodePoint(b, i, need)>> \o Utf8Decode(b, i + need + 1)
    ELSE <<65533>> \o Utf8Decode(b, i + good + 1)

\* the positions of b before which it can be split: the ASCII bytes, before
\* which the decoder is always in its initial state
Utf8Cuts(b) == {i \in 2..Len(b) : b[i] < 128}

\* the element of cuts nearest the middle of 1..n
NearestMiddle(cuts, n) ==
    CHOOSE i \in cuts :
        \A j \in cuts : Abs(2 * i - n) < Abs(2 * j - n)
                         \/ (Abs(2 * i - n) = Abs(2 * j - n) /\ i <= j)

\* the decoder applied to all of b, in two parts split at mid (which keeps
\* the evaluation shallow)
RECURSIVE Utf8DecodeAll(_), Utf8DecodeSplit(_, _)
Utf8DecodeAll(b) ==
    IF Len(b) <= 8 \/ Utf8Cuts(b) = {} THEN Utf8Decode(b, 1)
    ELSE Utf8DecodeSplit(b, NearestMiddle(Utf8Cuts(b), Len(b)))

Utf8DecodeSplit(b, mid) ==
    Utf8DecodeAll(SubSeq(b, 1, mid - 1)) \o Utf8DecodeAll(SubSeq(b, mid, Len(b)))

\* ignoreBOM is false: one leading U+FEFF is removed from the decoded text
StripBOM(t) == IF Len(t) > 0 /\ t[1] = 65279 THEN Tail(t) ELSE t

\* new TextDecoder().decode(array)
uint8ArrayToText(array) == StripBOM(Utf8DecodeAll(array))

(***************************************************************************)
(* JSON.stringify of the archive metadata, and JSON.parse.                 *)
(***************************************************************************)
RECURSIVE Digits(_)
Digits(n) == IF n < 10 THEN <<48 + n>> ELSE Digits(n \div 10) \o <<48 + (n % 10)>>

HexDigit(d) == IF d < 10 THEN 48 + d ELSE 87 + d

\* one character of a JSON string literal as JSON.stringify writes it
JsonEscape(c) ==
    IF c = 34 THEN <<92, 34>>
    ELSE IF c = 92 THEN <<92, 92>>
    ELSE IF c = 8 THEN <<92, 98>>
    ELSE IF c = 9 THEN <<92, 116>>
    ELSE IF c = 10 THEN <<92, 110>>
    ELSE IF c = 12 THEN <<92, 102>>
    ELSE IF c = 13 THEN <<92, 114>>
    ELSE IF c < 32 \/ (c >= 55296 /\ c <= 57343)
         THEN <<92, 117, HexDigit(c \div 4096), HexDigit((c \div 256) % 16),
                HexDigit((c \div 16) % 16), HexDigit(c % 16)>>
    ELSE <<c>>

JsonQuote(s) == <<34>> \o ConcatAll([i \in 1..Len(s) |-> JsonEscape(s[i])]) \o <<34>>

\* new Date().toISOString() for a clock reading of ms < 1000 milliseconds
\* after the epoch: "1970-01-01T00:00:00.mmmZ"
toISOString(ms) ==
    <<49, 57, 55, 48, 45, 48, 49, 45, 48, 49, 84, 48, 48, 58, 48, 48, 58, 48, 48, 46>>
    \o <<48 + (ms \div 100), 48 + ((ms \div 10) % 10), 48 + (ms % 10)>> \o <<90>>

\* {"path":<path>,"size":<size>}
JsonFileDescriptor(d) ==
    <<123, 34, 112, 97, 116, 104, 34, 58>> \o JsonQuote(d.path)
    \o <<44, 34, 115, 105, 122, 101, 34, 58>> \o Digits(d.size) \o <<125>>

RECURSIVE JsonJoin(_)
JsonJoin(items) ==
    IF items = <<>> THEN <<>>
    ELSE IF Len(items) = 1 THEN items[1]
    ELSE items[1] \o <<44>> \o JsonJoin(Tail(items))

\* JSON.stringify({version: '1.0', created, files: [...]})
JSONstringify(archive) ==
    <<123, 34, 118, 101, 114, 115, 105, 111, 110, 34, 58, 34, 49, 46, 48, 34, 44,
      34, 99, 114, 101, 97, 116, 101, 100, 34, 58, 34>>
    \o archive.created
    \o <<34, 44, 34, 102, 105, 108, 101, 115, 34, 58, 91>>
    \o JsonJoin([i \in 1..Len(archive.files) |-> JsonFileDescriptor(archive.files[i])])
    \o <<93, 125>>

\* Parse results: ok, the value v and the position i after it.
JsonFail == [ok |-> FALSE, v |-> [t |-> "undefined"], i |-> 0]

JsonOk(v, i) == [ok |-> TRUE, v |-> v, i |-> i]

RECURSIVE SkipWs(_, _)
SkipWs(t, i) ==
    IF i <= Len(t) /\ t[i] \in {32, 9, 10, 13} THEN SkipWs(t, i + 1) ELSE i

IsDigit(c) == c >= 48 /\ c <= 57

IsHex(c) == IsDigit(c) \/ (c >= 97 /\ c <= 102) \/ (c >= 65 /\ c <= 70)

HexVal(c) == IF IsDigit(c) THEN c - 48 ELSE IF c >= 97 THEN c - 87 ELSE c - 55

RECURSIVE DigitsEnd(_, _)
DigitsEnd(t, i) == IF i <= Len(t) /\ IsDigit(t[i]) THEN DigitsEnd(t, i + 1) ELSE i

\* the next quote, backslash or control character of t at or after i
\* (Len(t) + 1 when there is none)
JsonNextStop(t, i) ==
    Least({j \in i..Len(t) : t[j] = 34 \/ t[j] = 92 \/ t[j] < 32} \cup {Len(t) + 1})

\* the character an escape \e stands for (-1: no such escape)
JsonUnescape(e) ==
    IF e \in {34, 92, 47} THEN e
    ELSE IF e = 98 THEN 8
    ELSE IF e = 102 THEN 12
    ELSE IF e = 110 THEN 10
    ELSE IF e = 114 THEN 13
    ELSE IF e = 116 THEN 9
    ELSE -1

\* the characters of a string literal from position i0 (after its opening
\* quote) up to the closing quote; acc holds the characters read so far
RECURSIVE JsonStringBody(_, _, _), JsonStringStop(_, _, _)
JsonStringBody(t, i0, acc) ==
    JsonStringStop(t, JsonNextStop(t, i0),
                   acc \o SubSeq(t, i0, JsonNextStop(t, i0) - 1))

\* at the stop t[i]: the closing quote, an escape, or an error
JsonStringStop(t, i, acc) ==
    IF i > Len(t) THEN JsonFail
    ELSE IF t[i] = 34 THEN JsonOk([t |-> "string", s |-> acc], i + 1)
    ELSE IF t[i] < 32 \/ i + 1 > Len(t) THEN JsonFail
    ELSE IF JsonUnescape(t[i + 1]) >= 0
         THEN JsonStringBody(t, i + 2, Append(acc, JsonUnescape(t[i + 1])))
    ELSE IF t[i + 1] = 117 /\ i + 5 <= Len(t) /\ \A k \in 2..5 : IsHex(t[i + k])
         THEN JsonStringBody(t, i + 6,
                  Append(acc, HexVal(t[i + 2]) * 4096 + HexVal(t[i + 3]) * 256
                              + HexVal(t[i + 4]) * 16 + HexVal(t[i + 5])))
    ELSE JsonFail

\* a number, -? int frac? exp?, at position i: a is where its integer part
\* starts, b where that ends, c where the fraction ends
JsonNumberExp(t, c) ==
    IF ~(c <= Len(t) /\ t[c] \in {101, 69}) THEN JsonOk([t |-> "number"], c)
    ELSE IF c + 1 <= Len(t) /\ t[c + 1] \in {43, 45}
         THEN IF DigitsEnd(t, c + 2) > c + 2
              THEN JsonOk([t |-> "number"], DigitsEnd(t, c + 2)) ELSE JsonFail
    ELSE IF DigitsEnd(t, c + 1) > c + 1
         THEN JsonOk([t |-> "number"], DigitsEnd(t, c + 1)) ELSE JsonFail

JsonNumberFrac(t, a, b) ==
    IF b = a THEN JsonFail
    ELSE IF ~(b <= Len(t) /\ t[b] = 46) THEN JsonNumberExp(t, b)
    ELSE IF DigitsEnd(t, b + 1) = b + 1 THEN JsonFail
    ELSE JsonNumberExp(t, DigitsEnd(t, b + 1))

JsonNumberInt(t, a) ==
    JsonNumberFrac(t, a, IF a <= Len(t) /\ t[a] = 48 THEN a + 1 ELSE DigitsEnd(t, a))

\* the value of a literal of at most 9 decimal digits, -1 for any other
RECURSIVE JsonInteger(_)
JsonInteger(lit) ==
    IF lit = <<>> THEN 0
    ELSE IF Len(lit) > 9 \/ \E k \in 1..Len(lit) : ~IsDigit(lit[k]) THEN -1
    ELSE JsonInteger(SubSeq(lit, 1, Len(lit) - 1)) * 10 + (lit[Len(lit)] - 48)

\* the number parsed as r from position i on, with its value n
JsonNumberValue(t, i, r) ==
    IF r.ok THEN JsonOk([t |-> "number", n |-> JsonInteger(SubSeq(t, i, r.i - 1))], r.i)
    ELSE JsonFail

JsonNumber(t, i) ==
    JsonNumberValue(t, i, JsonNumberInt(t, IF t[i] = 45 THEN i + 1 ELSE i))

JsonLiteral(t, i, word, tag) ==
    IF i + Len(word) - 1 <= Len(t) /\ SubSeq(t, i, i + Len(word) - 1) = word
    THEN JsonOk([t |-> tag], i + Len(word))
    ELSE JsonFail

RECURSIVE JsonValue(_, _), JsonValueAt(_, _), JsonArray(_, _), JsonObject(_, _),
          JsonElements(_, _, _), JsonElementsNext(_, _, _, _),
          JsonMembers(_, _, _), JsonMemberColon(_, _, _, _),
          JsonMemberValue(_, _, _, _), JsonMembersNext(_, _, _, _)
JsonValue(t, i) == JsonValueAt(t, SkipWs(t, i))

\* the value that starts at the non-blank position i
JsonValueAt(t, i) ==
    IF i > Len(t) THEN JsonFail
    ELSE IF t[i] = 34 THEN JsonStringBody(t, i + 1, <<>>)
    ELSE IF t[i] = 45 \/ IsDigit(t[i]) THEN JsonNumber(t, i)
    ELSE IF t[i] = 116 THEN JsonLiteral(t, i, <<116, 114, 117, 101>>, "true")
    ELSE IF t[i] = 102 THEN JsonLiteral(t, i, <<102, 97, 108, 115, 101>>, "false")
    ELSE IF t[i] = 110 THEN JsonLiteral(t, i, <<110, 117, 108, 108>>, "null")
    ELSE IF t[i] = 91 THEN JsonArray(t, SkipWs(t, i + 1))
    ELSE IF t[i] = 123 THEN JsonObject(t, SkipWs(t, i + 1))
    ELSE JsonFail

\* after "[", at the non-blank position j
JsonArray(t, j) ==
    IF j <= Len(t) /\ t[j] = 93 THEN JsonOk([t |-> "array", e |-> <<>>], j + 1)
    ELSE JsonElements(t, j, <<>>)

\* after "{", at the non-blank position j
JsonObject(t, j) ==
    IF j <= Len(t) /\ t[j] = 125 THEN JsonOk([t |-> "object", m |-> <<>>], j + 1)
    ELSE JsonMembers(t, j, <<>>)

\* the elements of an array from position i, after "[" or ","
JsonElements(t, i, acc) == JsonElementsNext(t, JsonValue(t, i), i, acc)

\* after the element r: "," and more elements, or "]"
JsonElementsNext(t, r, i, acc) ==
    IF ~r.ok \/ SkipWs(t, r.i) > Len(t) THEN JsonFail
    ELSE IF t[SkipWs(t, r.i)] = 44
         THEN JsonElements(t, SkipWs(t, r.i) + 1, Append(acc, r.v))
    ELSE IF t[SkipWs(t, r.i)] = 93
         THEN JsonOk([t |-> "array", e |-> Append(acc, r.v)], SkipWs(t, r.i) + 1)
    ELSE JsonFail

\* the members of an object from the non-blank position i, after "{" or ","
JsonMembers(t, i, acc) ==
    IF i <= Len(t) /\ t[i] = 34
    THEN JsonMemberColon(t, JsonStringBody(t, i + 1, <<>>), i, acc)
    ELSE JsonFail

\* after the member name key: ":" and the member's value
JsonMemberColon(t, key, i, acc) ==
    IF key.ok /\ SkipWs(t, key.i) <= Len(t) /\ t[SkipWs(t, key.i)] = 58
    THEN JsonMemberValue(t, key.v.s, SkipWs(t, key.i) + 1, acc)
    ELSE JsonFail

JsonMemberValue(t, name, i, acc) == JsonMembersNext(t, name, JsonValue(t, i), acc)

\* after the member name : val: "," and more members, or "}"
JsonMembersNext(t, name, val, acc) ==
    IF ~val.ok \/ SkipWs(t, val.i) > Len(t) THEN JsonFail
    ELSE IF t[SkipWs(t, val.i)] = 44
         THEN JsonMembers(t, SkipWs(t, SkipWs(t, val.i) + 1),
                          Append(acc, [k |-> name, v |-> val.v]))
    ELSE IF t[SkipWs(t, val.i)] = 125
         THEN JsonOk([t |-> "object", m |-> Append(acc, [k |-> name, v |-> val.v])],
                     SkipWs(t, val.i) + 1)
    ELSE JsonFail

\* the whole text must be one value
JsonWhole(text, r) ==
    IF r.ok /\ SkipWs(text, r.i) = Len(text) + 1
    THEN [ok |-> TRUE, v |-> r.v]
    ELSE [ok |-> FALSE, v |-> [t |-> "undefined"]]

\* JSON.parse(text): ok is FALSE where JSON.parse throws a SyntaxError
JSONparse(text) == JsonWhole(text, JsonValue(text, 1))

(***************************************************************************)
(* node:path (POSIX): join, dirname, basename.                             *)
(***************************************************************************)
\* the position of the first "/" of p (0 when there is none)
FirstSlash(p) == Least({i \in 1..Len(p) : p[i] = 47} \cup {Len(p) + 1}) % (Len(p) + 1)

\* p.split('/')
RECURSIVE SplitSlash(_), SplitAt(_, _)
SplitSlash(p) == SplitAt(p, FirstSlash(p))

SplitAt(p, k) ==
    IF k = 0 THEN <<p>>
    ELSE <<SubSeq(p, 1, k - 1)>> \o SplitSlash(SubSeq(p, k + 1, Len(p)))

RECURSIVE JoinSlash(_)
JoinSlash(segs) ==
    IF segs = <<>> THEN <<>>
    ELSE IF Len(segs) = 1 THEN segs[1]
    ELSE segs[1] \o <<47>> \o JoinSlash(Tail(segs))

\* normalizeString: drop "" and ".", let ".." cancel the segment before it
RECURSIVE NormSegs(_, _, _)
NormSegs(segs, acc, allowAboveRoot) ==
    IF segs = <<>> THEN acc
    ELSE IF Head(segs) = <<>> \/ Head(segs) = <<46>>
         THEN NormSegs(Tail(segs), acc, allowAboveRoot)
    ELSE IF Head(segs) # <<46, 46>>
         THEN NormSegs(Tail(segs), Append(acc, Head(segs)), allowAboveRoot)
    ELSE IF Len(acc) > 0 /\ acc[Len(acc)] # <<46, 46>>
         THEN NormSegs(Tail(segs), SubSeq(acc, 1, Len(acc) - 1), allowAboveRoot)
    ELSE IF allowAboveRoot
         THEN NormSegs(Tail(segs), Append(acc, <<46, 46>>), allowAboveRoot)
    ELSE NormSegs(Tail(segs), acc, allowAboveRoot)

\* path with its normalized segments body: root and trailing "/" are kept
NormalForm(path, body) ==
    IF body = <<>>
    THEN IF path[1] = 47 THEN <<47>>
         ELSE IF path[Len(path)] = 47 THEN <<46, 47>> ELSE <<46>>
    ELSE (IF path[1] = 47 THEN <<47>> ELSE <<>>) \o body
         \o (IF path[Len(path)] = 47 THEN <<47>> ELSE <<>>)

\* path.normalize(path)
normalize(path) ==
    IF path = <<>> THEN <<46>>
    ELSE NormalForm(path, JoinSlash(NormSegs(SplitSlash(path), <<>>, path[1] # 47)))

\* path.join(a, b): the non-empty arguments joined by "/" and normalized
join(a, b) ==
    normalize(IF a = <<>> THEN b ELSE IF b = <<>> THEN a ELSE a \o <<47>> \o b)

\* the positions of a "/" of path that ends a directory part
DirEnds(path) ==
    {i \in 2..Len(path) : path[i] = 47 /\ \E j \in (i + 1)..Len(path) : path[j] # 47}

\* path.dirname(path)
dirname(path) ==
    IF path = <<>> THEN <<46>>
    ELSE IF DirEnds(path) = {} THEN (IF path[1] = 47 THEN <<47>> ELSE <<46>>)
    ELSE IF path[1] = 47 /\ -Least({-i : i \in DirEnds(path)}) = 2 THEN <<47, 47>>
    ELSE SubSeq(path, 1, -Least({-i : i \in DirEnds(path)}) - 1)

RECURSIVE StripTrailingSlashes(_)
StripTrailingSlashes(p) ==
    IF Len(p) > 0 /\ p[Len(p)] = 47 THEN StripTrailingSlashes(SubSeq(p, 1, Len(p) - 1))
    ELSE p

\* comp without the suffix, when it ends with it and is longer
StripSuffix(comp, suffix) ==
    IF /\ suffix # <<>>
       /\ Len(comp) > Len(suffix)
       /\ SubSeq(comp, Len(comp) - Len(suffix) + 1, Len(comp)) = suffix
    THEN SubSeq(comp, 1, Len(comp) - Len(suffix))
    ELSE comp

LastOf(segs) == segs[Len(segs)]

\* path.basename(path, suffix); suffix <<>> stands for no suffix
basename(path, suffix) ==
    IF suffix # <<>> /\ suffix = path THEN <<>>
    ELSE StripSuffix(LastOf(SplitSlash(StripTrailingSlashes(path))), suffix)

(***************************************************************************)
(* The file system: directories and files by normalized path relative to   *)
(* the working directory ("." itself); no symbolic links.                  *)
(***************************************************************************)
StripSlash(n) == IF Len(n) > 1 /\ n[Len(n)] = 47 THEN SubSeq(n, 1, Len(n) - 1) ELSE n

\* the entry a path string names
FsKey(p) == StripSlash(normalize(p))

FsParent(k) == FsKey(k \o <<47, 46, 46>>)

\* ".", "..", "../..": the working directory and the directories above it
IsAboveCwd(k) == \A s \in Range(SplitSlash(k)) : s = <<46, 46>> \/ s = <<46>>

FsIsDir(fs, k) == k \in fs.dirs \/ IsAboveCwd(k)

FsIsFile(fs, k) == k \in DOMAIN fs.files

FsExists(fs, k) == FsIsDir(fs, k) \/ FsIsFile(fs, k)

\* fs.existsSync(p)
existsSync(fs, p) == FsExists(fs, FsKey(p))

\* the directories mkdir -p has to create for k, nearest first
RECURSIVE MissingDirs(_, _)
MissingDirs(fs, k) ==
    IF FsExists(fs, k) THEN <<>> ELSE <<k>> \o MissingDirs(fs, FsParent(k))

\* the nearest existing ancestor of k (k itself when it exists)
RECURSIVE NearestExisting(_, _)
NearestExisting(fs, k) ==
    IF FsExists(fs, k) THEN k ELSE NearestExisting(fs, FsParent(k))

\* mkdir -p of the entry k: fails when an ancestor is a regular file
MkdirAt(fs, k) ==
    IF FsIsFile(fs, NearestExisting(fs, k))
    THEN [ok |-> FALSE, fs |-> fs]
    ELSE [ok |-> TRUE, fs |-> [fs EXCEPT !.dirs = @ \cup Range(MissingDirs(fs, k))]]

\* fs.mkdirSync(p, {recursive: true})
mkdirSync(fs, p) == MkdirAt(fs, FsKey(p))

\* the write of data to the entry k named by p
WriteAt(fs, p, k, data) ==
    IF \/ p = <<>>
       \/ p[Len(p)] = 47
       \/ FsIsDir(fs, k)
       \/ ~FsIsDir(fs, FsParent(k))
    THEN [ok |-> FALSE, fs |-> fs]
    ELSE [ok |-> TRUE,
          fs |-> [fs EXCEPT !.files =
                     [x \in DOMAIN @ \cup {k} |-> IF x = k THEN data ELSE @[x]]]]

\* fs.writeFileSync(p, data): creates or replaces a regular file
writeFileSync(fs, p, data) == WriteAt(fs, p, FsKey(p), data)

StatAt(fs, p, k) ==
    IF p = <<>> THEN "ENOENT"
    ELSE IF FsIsDir(fs, k) THEN "dir"
    ELSE IF FsIsFile(fs, k) /\ p[Len(p)] # 47 THEN "file"
    ELSE "ENOENT"

\* "dir", "file" or "ENOENT" for fs.stat(p)
stat(fs, p) == StatAt(fs, p, FsKey(p))

\* ensureDirectoryExists(dirPath)
ensureDirectoryExists(fs, dirPath) ==
    IF existsSync(fs, dirPath) THEN [ok |-> TRUE, fs |-> fs] ELSE mkdirSync(fs, dirPath)

(***************************************************************************)
(* JavaScript objects used as ordered maps, and Array.prototype.sort.      *)
(* Property order is insertion order (no path of the model is a canonical  *)
(* array index, which would be enumerated first).                          *)
(***************************************************************************)
\* files[key] = val: a new key goes last, an old key keeps its place
ObjSet(obj, key, val) ==
    IF \E i \in 1..Len(obj) : obj[i].path = key
    THEN [i \in 1..Len(obj) |->
             IF obj[i].path = key THEN [path |-> key, content |-> val] ELSE obj[i]]
    ELSE Append(obj, [path |-> key, content |-> val])

\* files[key]
ObjGet(obj, key) == obj[CHOOSE i \in 1..Len(obj) : obj[i].path = key].content

\* Object.keys(files)
ObjKeys(obj) == [i \in 1..Len(obj) |-> obj[i].path]

\* Object.assign(target, source)
RECURSIVE ObjAssign(_, _)
ObjAssign(target, source) ==
    IF source = <<>> THEN target
    ELSE ObjAssign(ObjSet(target, Head(source).path, Head(source).content), Tail(source))

\* the default comparison of sort(): by code unit, a proper prefix first
StrLess(a, b) ==
    \E k \in 1..(Min(Len(a), Len(b)) + 1) :
        /\ \A j \in 1..(k - 1) : a[j] = b[j]
        /\ \/ k > Len(a) /\ k <= Len(b)
           \/ k <= Len(a) /\ k <= Len(b) /\ a[k] < b[k]

\* the element of S that sorts first
StrLeast(S) == CHOOSE x \in S : \A y \in S \ {x} : StrLess(x, y)

RECURSIVE SortSet(_), SortFrom(_, _)
SortSet(S) == IF S = {} THEN <<>> ELSE SortFrom(S, StrLeast(S))

SortFrom(S, m) == <<m>> \o SortSet(S \ {m})

\* Object.keys(files).sort()
SortedKeys(obj) == SortSet(Range(ObjKeys(obj)))

(***************************************************************************)
(* DataView and zlib.                                                      *)
(***************************************************************************)
\* the 4 bytes DataView.setUint32(_, n, true) stores
\* (the low 32 bits of n, least significant byte first)
setUint32(n) ==
    <<n % 256, (n \div 256) % 256, (n \div 65536) % 256, (n \div 16777216) % 256>>

\* DataView.getUint32(off, true) on the bytes m (off counts from 0)
getUint32(m, off) ==
    m[off + 1] + 256 * m[off + 2] + 65536 * m[off + 3] + 16777216 * m[off + 4]

\* Lengths that may exceed 32 bits are written in base 65536, least
\* significant digit first: <<l0, l1, l2>> is l0 + l1 * 2^16 + l2 * 2^32.
Wide(n) == <<n % 65536, n \div 65536, 0>>

\* does the length n fit an unsigned 32-bit integer
FitsUint32(n) == n[3] = 0

\* DataView.setUint32(_, n, true) for a length n in base 65536: ToUint32
\* keeps n modulo 2^32, without an error
setUint32Wide(n) == <<n[1] % 256, n[1] \div 256, n[2] % 256, n[2] \div 256>>

\* zlib accepts levels -1..9 and throws a RangeError for any other
GzipLevelOk(lv) == lv >= -1 /\ lv <= 9

\* gzipSync(buf, {level}): a gzip member whose deflate body is written as the
\* data itself (header: magic, method, flags, mtime, xfl, os; trailer: ISIZE)
gzipSync(buf, lv) ==
    <<31, 139, 8, 0, 0, 0, 0, 0, (IF lv = 9 THEN 2 ELSE IF lv = 1 THEN 4 ELSE 0), 3>>
    \o buf \o setUint32(Len(buf))

\* gunzipSync(data): ok is FALSE where zlib throws
gunzipSync(data) ==
    IF /\ Len(data) >= 14
       /\ data[1] = 31 /\ data[2] = 139 /\ data[3] = 8
       /\ getUint32(data, Len(data) - 4) = Len(data) - 14
    THEN [ok |-> TRUE, data |-> SubSeq(data, 11, Len(data) - 4)]
    ELSE [ok |-> FALSE, data |-> <<>>]

(***************************************************************************)
(* The container: the encode step of compressDirectory.                    *)
(***************************************************************************)
\* an archive structure whose descriptors carry the byte length of the path
\* in place of the size of the content
ArchiveMetadataPathSize(files, now) ==
    [created |-> toISOString(now),
     files |-> [i \in 1..Len(files) |->
                   [path |-> files[i].path, size |-> Len(textToUint8Array(files[i].path))]]]

\* the archive structure: files lists Object.keys(files) in enumeration order
ArchiveMetadata(files, now) ==
    [created |-> toISOString(now),
     files |-> [i \in 1..Len(files) |->
                   [path |-> files[i].path, size |-> Len(files[i].content)]]]

\* header + path + content of one file
EntryBytes(pathBuffer, content) ==
    setUint32(Len(pathBuffer)) \o setUint32(Len(content)) \o pathBuffer \o content

EntryRecord(path, content) == EntryBytes(textToUint8Array(path), content)

\* lines 183-186: headerBuffer for a path of pathLength bytes and a content
\* of contentLength bytes (lengths in base 65536); no step of it throws
headerBuffer(pathLength, contentLength) ==
    [pathLength |-> pathLength, contentLength |-> contentLength,
     bytes |-> setUint32Wide(pathLength) \o setUint32Wide(contentLength)]

\* one record per key of keys
EntryStream(files, keys) ==
    ConcatAll([i \in 1..Len(keys) |-> EntryRecord(keys[i], ObjGet(files, keys[i]))])

\* the entry stream in the enumeration order of the keys, not sorted
ContentBuffersUnsorted(files) == EntryStream(files, ObjKeys(files))

\* the entry stream in sorted key order
ContentBuffers(files) == EntryStream(files, SortedKeys(files))

\* metadata length, metadata, entry stream
AssembleBuffers(metadataBuffer, contentBuffers) ==
    setUint32(Len(metadataBuffer)) \o metadataBuffer \o contentBuffers

\* finalBuffer of compressDirectory for the files object at clock reading now
BuildContainer(files, now) ==
    AssembleBuffers(textToUint8Array(JSONstringify(ArchiveMetadata(files, now))),
                    ContentBuffers(files))

(***************************************************************************)
(* The decode side of uncompressArchive: metadata, then the entry loop.    *)
(***************************************************************************)
\* the value of the last member called "files" of the object members m
\* (undefined when there is none)
FilesMember(m, hits) ==
    IF hits = {} THEN [t |-> "undefined"] ELSE m[-Least({-i : i \in hits})].v

\* metadata.files: its length when it is an array, -1 when the check of
\* line 280 rejects it, -2 when reading the property throws (metadata null)
MetadataFileCount(metadata) ==
    IF metadata.t = "null" THEN -2
    ELSE IF metadata.t # "object" THEN -1
    ELSE IF FilesMember(metadata.m,
                {i \in 1..Len(metadata.m) : metadata.m[i].k = <<102, 105, 108, 101, 115>>}
            ).t # "array" THEN -1
    ELSE Len(FilesMember(metadata.m,
                {i \in 1..Len(metadata.m) : metadata.m[i].k = <<102, 105, 108, 101, 115>>}
             ).e)

\* The while loop of lines 297-327.  decompressed is the typed array, slack
\* the bytes that follow it in its ArrayBuffer (the DataView is laid over
\* decompressed.buffer, subarray over the typed array).  log lists the
\* (path, content) pairs written so far.
RECURSIVE ExtractLoop(_, _, _, _, _, _), ExtractEntry(_, _, _, _, _, _, _, _),
          WriteEntry(_, _, _, _, _, _, _), WriteEntryIn(_, _, _, _, _, _, _, _),
          NextEntry(_, _, _, _, _, _, _, _, _)
ExtractLoop(fs, outputDir, decompressed, slack, offset, log) ==
    IF ~(offset < Len(decompressed))
    THEN [status |-> "ok", fs |-> fs, log |-> log]
    ELSE IF offset + 8 > Len(decompressed) + Len(slack)
    THEN [status |-> "RangeError", fs |-> fs, log |-> log]
    ELSE ExtractEntry(fs, outputDir, decompressed, slack, offset + 8,
                      getUint32(decompressed \o slack, offset),
                      getUint32(decompressed \o slack, offset + 4), log)

\* lines 304-311: offset is past the header; the subarrays are clamped
ExtractEntry(fs, outputDir, decompressed, slack, offset, pathLength, contentLength, log) ==
    WriteEntry(fs, outputDir, decompressed, slack,
               offset + pathLength + contentLength,
               [path |-> uint8ArrayToText(Slice(decompressed, offset, offset + pathLength)),
                content |-> Slice(decompressed, offset + pathLength,
                                  offset + pathLength + contentLength)],
               log)

\* lines 314-318: offset is past the entry
WriteEntry(fs, outputDir, decompressed, slack, offset, entry, log) ==
    WriteEntryIn(fs, outputDir, decompressed, slack, offset, entry,
                 join(outputDir, entry.path), log)

WriteEntryIn(fs, outputDir, decompressed, slack, offset, entry, fullPath, log) ==
    NextEntry(fs, ensureDirectoryExists(fs, dirname(fullPath)),
              outputDir, decompressed, slack, offset, entry, fullPath, log)

\* line 321, and the next turn of the loop
NextEntry(fs, made, outputDir, decompressed, slack, offset, entry, fullPath, log) ==
    IF ~made.ok
    THEN [status |-> "IOError", fs |-> fs, log |-> log]
    ELSE IF ~writeFileSync(made.fs, fullPath, entry.content).ok
    THEN [status |-> "IOError", fs |-> made.fs, log |-> log]
    ELSE ExtractLoop(writeFileSync(made.fs, fullPath, entry.content).fs,
                     outputDir, decompressed, slack, offset, Append(log, entry))

\* lines 285-330 for a metadata.files of fileCount elements
ExtractAll(fs, outputDir, decompressed, slack, metadataLength, fileCount) ==
    IF fileCount = -2
    THEN [status |-> "TypeError", fs |-> fs, log |-> <<>>, fileCount |-> 0]
    ELSE IF fileCount = -1
    THEN [status |-> "InvalidFormat", fs |-> fs, log |-> <<>>, fileCount |-> 0]
    ELSE IF fileCount = 0
    THEN [status |-> "NoFiles", fs |-> fs, log |-> <<>>, fileCount |-> 0]
    ELSE [fileCount |-> fileCount]
         @@ ExtractLoop(fs, outputDir, decompressed, slack, 4 + metadataLength, <<>>)

\* lines 280-330 for the outcome parsed of JSON.parse
ExtractParsed(fs, outputDir, decompressed, slack, metadataLength, parsed) ==
    IF ~parsed.ok
    THEN [status |-> "SyntaxError", fs |-> fs, log |-> <<>>, fileCount |-> 0]
    ELSE ExtractAll(fs, outputDir, decompressed, slack, metadataLength,
                    MetadataFileCount(parsed.v))

\* lines 276-330
ExtractFrom(fs, outputDir, decompressed, slack, metadataLength) ==
    ExtractParsed(fs, outputDir, decompressed, slack, metadataLength,
                  JSONparse(uint8ArrayToText(Slice(decompressed, 4, 4 + metadataLength))))

\* lines 271-330: status "ok" is the run that prints "Successfully extracted";
\* every other status ends in process.exit(1)
UnpackBuffer(fs, outputDir, decompressed, slack) ==
    IF 4 > Len(decompressed) + Len(slack)
    THEN [status |-> "RangeError", fs |-> fs, log |-> <<>>, fileCount |-> 0]
    ELSE ExtractFrom(fs, outputDir, decompressed, slack,
                     getUint32(decompressed \o slack, 0))

(***************************************************************************)
(* The command line (lines 12-43) and the two commands.                    *)
(***************************************************************************)
\* the position of the first c of s at or after i (0 when there is none)
IndexOf(s, c, i) ==
    Least({j \in i..Len(s) : s[j] = c} \cup {Len(s) + 1}) % (Len(s) + 1)

\* s.split('=')[1]: the text between the first "=" and the second
\* (the flag is known to hold a "=")
AfterEquals(s) ==
    IF IndexOf(s, 61, IndexOf(s, 61, 1) + 1) = 0
    THEN SubSeq(s, IndexOf(s, 61, 1) + 1, Len(s))
    ELSE SubSeq(s, IndexOf(s, 61, 1) + 1, IndexOf(s, 61, IndexOf(s, 61, 1) + 1) - 1)

\* the value of the decimal digits of s from position i to before position j
RECURSIVE DecimalValue(_, _, _)
DecimalValue(s, i, j) ==
    IF j <= i THEN 0 ELSE DecimalValue(s, i, j - 1) * 10 + (s[j - 1] - 48)

\* the digits of s that start at position i, negated when neg;
\* nan when there is no digit
ParseDigits(s, i, neg) ==
    IF DigitsEnd(s, i) = i THEN [nan |-> TRUE, n |-> 0]
    ELSE [nan |-> FALSE,
          n |-> IF neg THEN -DecimalValue(s, i, DigitsEnd(s, i))
                ELSE DecimalValue(s, i, DigitsEnd(s, i))]

\* after the white space: an optional sign, then digits
ParseSigned(s, i) ==
    IF i <= Len(s) /\ s[i] \in {43, 45} THEN ParseDigits(s, i + 1, s[i] = 45)
    ELSE ParseDigits(s, i, FALSE)

\* parseInt(s) for decimal input
parseInt(s) == ParseSigned(s, SkipWs(s, 1))

\* x || 9 for the outcome x of parseInt: NaN and 0 are falsy
OrNine(x) == IF x.nan \/ x.n = 0 THEN 9 ELSE x.n

\* lines 35-38; compressionLevelArg <<>> stands for undefined (no level flag)
level(compressionLevelArg) ==
    IF compressionLevelArg = <<>> THEN 9
    ELSE OrNine(parseInt(AfterEquals(compressionLevelArg)))

\* ".bunz"
DEFAULT_EXTENSION == <<46, 98, 117, 110, 122>>

\* the names readdir(dir) returns, in sorted order or the reverse of it
EntryNames(fs, k) ==
    {LastOf(SplitSlash(x)) :
        x \in {y \in (fs.dirs \cup DOMAIN fs.files) \ {k} : FsParent(y) = k}}

Reverse(s) == [i \in 1..Len(s) |-> s[Len(s) + 1 - i]]

readdir(fs, dir, reverse) ==
    IF reverse THEN Reverse(SortSet(EntryNames(fs, FsKey(dir))))
    ELSE SortSet(EntryNames(fs, FsKey(dir)))

\* readFilesRecursively(dir, baseDir): the files object, in the order met
RECURSIVE readFilesRecursively(_, _, _, _), ReadEntries(_, _, _, _, _, _),
          ReadEntry(_, _, _, _, _, _, _)
readFilesRecursively(fs, dir, baseDir, reverse) ==
    ReadEntries(fs, dir, baseDir, reverse, readdir(fs, dir, reverse), <<>>)

\* the for loop of lines 68-79 over the remaining entries
ReadEntries(fs, dir, baseDir, reverse, entries, files) ==
    IF entries = <<>> THEN files
    ELSE ReadEntry(fs, dir, baseDir, reverse, Tail(entries),
                   join(dir, Head(entries)), files)

\* lines 70-78 for the entry at fullPath
ReadEntry(fs, dir, baseDir, reverse, rest, fullPath, files) ==
    ReadEntries(fs, dir, baseDir, reverse, rest,
        IF FsIsDir(fs, FsKey(fullPath))
        THEN ObjAssign(files, readFilesRecursively(fs, fullPath, baseDir, reverse))
        ELSE ObjSet(files, Slice(fullPath, Len(baseDir) + 1, Len(fullPath)),
                    fs.files[FsKey(fullPath)]))

\* the outcome of a command that ends in process.exit(1) before gzipSync
Exit(status, fs, output) ==
    [status |-> status, fs |-> fs, output |-> output, level |-> 0, gzip |-> FALSE]

\* lines 225-235
CompressWrite(fs, outputFile, lv, wrote) ==
    [status |-> IF wrote.ok THEN "ok" ELSE "IOError",
     fs |-> wrote.fs, output |-> outputFile, level |-> lv, gzip |-> TRUE]

\* lines 143-235 for the files object read from the directory
CompressFiles(fs, outputFile, lv, now, files) ==
    IF Len(files) = 0 THEN Exit("NoFilesInDirectory", fs, outputFile)
    ELSE IF ~GzipLevelOk(lv)
    THEN [status |-> "RangeError", fs |-> fs, output |-> outputFile,
          level |-> lv, gzip |-> TRUE]
    ELSE CompressWrite(fs, outputFile, lv,
             writeFileSync(fs, outputFile, gzipSync(BuildContainer(files, now), lv)))

\* compressDirectory(directoryPath, outputFile) with the module's level;
\* outputFile <<>> stands for undefined
compressDirectory(fs, directoryPath, outputFile, lv, now, reverse) ==
    IF stat(fs, directoryPath) = "ENOENT" THEN Exit("ENOENT", fs, outputFile)
    ELSE IF stat(fs, directoryPath) # "dir" THEN Exit("NotADirectory", fs, outputFile)
    ELSE CompressFiles(fs,
             IF outputFile = <<>>
             THEN basename(directoryPath, <<>>) \o DEFAULT_EXTENSION
             ELSE outputFile,
             lv, now,
             readFilesRecursively(fs, directoryPath, directoryPath, reverse))

\* lines 266-330, after ensureDirectoryExists(outputDir) had the outcome made
UncompressData(fs, made, outputDir, gz, slack) ==
    IF ~made.ok THEN Exit("IOError", fs, outputDir)
    ELSE IF ~gz.ok THEN Exit("ZlibError", made.fs, outputDir)
    ELSE [output |-> outputDir, level |-> 0, gzip |-> FALSE]
         @@ UnpackBuffer(made.fs, outputDir, gz.data, slack)

\* lines 263-330
UncompressInto(fs, archivePath, outputDir, slack) ==
    UncompressData(fs, ensureDirectoryExists(fs, outputDir), outputDir,
                   gunzipSync(fs.files[FsKey(archivePath)]), slack)

\* uncompressArchive(archivePath, outputDir); outputDir <<>> stands for undefined
uncompressArchive(fs, archivePath, outputDir, slack) ==
    IF stat(fs, archivePath) = "ENOENT" THEN Exit("ENOENT", fs, outputDir)
    ELSE IF stat(fs, archivePath) # "file" THEN Exit("NotAFile", fs, outputDir)
    ELSE UncompressInto(fs, archivePath,
             IF outputDir = <<>>
             THEN join(dirname(archivePath), basename(archivePath, DEFAULT_EXTENSION))
             ELSE outputDir,
             slack)

(***************************************************************************)
(* State.  The codec variables hold one encode/decode experiment on        *)
(* buffers; the process variables hold the disk and the last command run.  *)
(***************************************************************************)
VARIABLES
    files,          \* the files object: sequence of [path, content], in enumeration order
    created,        \* the clock reading taken by new Date()
    finalBuffer,    \* the container compressDirectory builds from files
    rebuilt,        \* the container of a second encode of the same mapping
    decompressed,   \* the buffer uncompressArchive walks
    tamper,         \* how decompressed differs from finalBuffer
    slack,          \* bytes after decompressed in its ArrayBuffer
    unpacked,       \* outcome of the walk
    header,         \* an entry header written for given path and content lengths
    disk,           \* the file system
    last,           \* the last command: its arguments, outcome and the disk before it
    packed,         \* the archive the last successful compress wrote, and of which tree
    pack,           \* a compressDirectory run taken step by step: its position and locals
    gz,             \* a run of the gzip extractor: its option and what it wrote
    loop,           \* the extraction loop taken turn by turn: its position and locals
    view,           \* the viewer page: hash, content shown and fetches in flight
    stage

codecVars ==
    <<files, created, finalBuffer, rebuilt, decompressed, tamper, slack, unpacked, header>>

processVars == <<disk, last, packed>>

toolVars == <<pack, gz, loop, view>>

vars == <<files, created, finalBuffer, rebuilt, decompressed, tamper, slack, unpacked,
          header, disk, last, packed, pack, gz, loop, view, stage>>

(***************************************************************************)
(* Inputs.                                                                 *)
(***************************************************************************)
\* "a", "b/a", U+FEFF "b"
PathPool == {<<97>>, <<98, 47, 97>>, <<65279, 98>>}

\* "", "hi"
ContentPool == {<<>>, <<104, 105>>}

\* the non-empty files objects with at most MaxFiles distinct keys
FilesPool ==
    {f \in UNION {[1..n -> [path : PathPool, content : ContentPool]] : n \in 1..MaxFiles} :
        \A i, j \in DOMAIN f : i # j => f[i].path # f[j].path}

Clock == 0..MaxNow

\* an ArrayBuffer that ends with the typed array, or holds 8 more bytes
SlackPool == {<<>>, <<0, 0, 0, 0, 0, 0, 0, 0>>}

\* byte lengths 1, 2^32 - 1, 2^32 and 2^32 + 2
LengthPool == {<<1, 0, 0>>, <<65535, 65535, 0>>, <<0, 0, 1>>, <<2, 0, 1>>}

\* file lists a foreign metadata header may carry
MetaListPool ==
    {<<>>, <<[path |-> <<122>>, size |-> 7]>>,
     <<[path |-> <<122>>, size |-> 7], [path |-> <<122>>, size |-> 7],
       [path |-> <<122>>, size |-> 7]>>}

\* the output directory "o", empty
OutDir == <<111>>

EmptyOut == [dirs |-> {OutDir}, files |-> <<>>]

NoTamper == [kind |-> "none", at |-> 0, list |-> <<>>]

NotUnpacked == [status |-> "none", fs |-> EmptyOut, log |-> <<>>, fileCount |-> 0]

NoCommand ==
    [cmd |-> "none", status |-> "none", input |-> <<>>, output |-> <<>>,
     flag |-> <<>>, level |-> 0, gzip |-> FALSE, before |-> EmptyOut]

NotPacked == [archive |-> <<>>, from |-> <<>>, tree |-> {}]

NoHeader == [pathLength |-> <<0, 0, 0>>, contentLength |-> <<0, 0, 0>>, bytes |-> <<>>]

NotPacking == [pc |-> "none"]

NotExtracting == [option |-> "none"]

NotLooping == [pc |-> "none"]

NoView == [hash |-> <<>>]

(***************************************************************************)
(* The codec experiments: encode a files object, hand the container (as    *)
(* built, or altered on the way) to the decode side of uncompressArchive.  *)
(***************************************************************************)
\* byte offset at which the entry stream of finalBuffer starts
MetaEnd == 4 + getUint32(finalBuffer, 0)

\* the key of files that sorts last
LastKey == LastOf(SortedKeys(files))

\* byte offset of the header of the last entry of finalBuffer
LastEntryAt == Len(finalBuffer) - Len(EntryRecord(LastKey, ObjGet(files, LastKey)))

InitCodec ==
    /\ files \in FilesPool
    /\ created = 0
    /\ finalBuffer = <<>>
    /\ rebuilt = <<>>
    /\ decompressed = <<>>
    /\ tamper = NoTamper
    /\ slack = <<>>
    /\ unpacked = NotUnpacked
    /\ header = NoHeader
    /\ disk = EmptyOut
    /\ last = NoCommand
    /\ packed = NotPacked
    /\ pack = NotPacking
    /\ gz = NotExtracting
    /\ loop = NotLooping
    /\ view = NoView
    /\ stage = "input"

\* the encode step of compressDirectory (lines 159-217)
Encode(now) ==
    /\ stage = "input"
    /\ created' = now
    /\ finalBuffer' = BuildContainer(files, now)
    /\ stage' = "encoded"
    /\ UNCHANGED <<files, rebuilt, decompressed, tamper, slack, unpacked>>
    /\ UNCHANGED <<header, processVars, toolVars>>

\* the files object with its keys enumerated in the order perm
Reordered(obj, perm) == [i \in 1..Len(obj) |-> obj[perm[i]]]

Perms(n) == {p \in [1..n -> 1..n] : \A i, j \in 1..n : i # j => p[i] # p[j]}

\* a second encode of the same mapping, enumerated in the order perm
Reencode(perm, now) ==
    /\ stage = "encoded"
    /\ rebuilt' = BuildContainer(Reordered(files, perm), now)
    /\ tamper' = [NoTamper EXCEPT !.kind = "reorder", !.list = perm, !.at = now]
    /\ stage' = "reencoded"
    /\ UNCHANGED <<files, created, finalBuffer, decompressed, slack, unpacked>>
    /\ UNCHANGED <<header, processVars, toolVars>>

\* the container reaches the unpacker as it was built
Deliver ==
    /\ stage = "encoded"
    /\ decompressed' = finalBuffer
    /\ tamper' = NoTamper
    /\ stage' = "delivered"
    /\ UNCHANGED <<files, created, finalBuffer, rebuilt, slack, unpacked>>
    /\ UNCHANGED <<header, processVars, toolVars>>

\* the container reaches the unpacker cut after its first cut bytes
Truncate(cut) ==
    /\ stage = "encoded"
    /\ decompressed' = SubSeq(finalBuffer, 1, cut)
    /\ tamper' = [NoTamper EXCEPT !.kind = "cut", !.at = cut]
    /\ stage' = "delivered"
    /\ UNCHANGED <<files, created, finalBuffer, rebuilt, slack, unpacked>>
    /\ UNCHANGED <<header, processVars, toolVars>>

\* a container with the same entry stream whose metadata lists other files
ReplaceMetadataFiles(list) ==
    /\ stage = "encoded"
    /\ decompressed' =
           AssembleBuffers(
               textToUint8Array(JSONstringify(
                   [ArchiveMetadata(files, created) EXCEPT !.files = list])),
               ContentBuffers(files))
    /\ tamper' = [NoTamper EXCEPT !.kind = "files", !.list = list]
    /\ stage' = "delivered"
    /\ UNCHANGED <<files, created, finalBuffer, rebuilt, slack, unpacked>>
    /\ UNCHANGED <<header, processVars, toolVars>>

\* metadata bytes a damaged or foreign container may carry in place of the
\* metadata JSON meta: {}, null, {"files":5}, [1], {"files" , x, meta after a
\* UTF-8 byte order mark, meta with the byte 255 inside its version string
DamagedMetadata(kind, meta) ==
    IF kind = 1 THEN <<123, 125>>
    ELSE IF kind = 2 THEN <<110, 117, 108, 108>>
    ELSE IF kind = 3 THEN <<123, 34, 102, 105, 108, 101, 115, 34, 58, 53, 125>>
    ELSE IF kind = 4 THEN <<91, 49, 93>>
    ELSE IF kind = 5 THEN <<123, 34, 102, 105, 108, 101, 115, 34>>
    ELSE IF kind = 6 THEN <<120>>
    ELSE IF kind = 7 THEN <<239, 187, 191>> \o meta
    ELSE [meta EXCEPT ![13] = 255]

DamageKinds == 1..8

\* a container with the same entry stream whose metadata bytes are damaged
CorruptMetadata(kind) ==
    /\ stage = "encoded"
    /\ decompressed' =
           AssembleBuffers(
               DamagedMetadata(kind,
                   textToUint8Array(JSONstringify(ArchiveMetadata(files, created)))),
               ContentBuffers(files))
    /\ tamper' = [NoTamper EXCEPT !.kind = "meta", !.at = kind]
    /\ stage' = "delivered"
    /\ UNCHANGED <<files, created, finalBuffer, rebuilt, slack, unpacked>>
    /\ UNCHANGED <<header, processVars, toolVars>>

\* a container whose last entry declares d more bytes than it has, in its
\* path length (field 0) or its content length (field 4)
Overdeclare(field, d) ==
    /\ stage = "encoded"
    /\ decompressed' = [finalBuffer EXCEPT ![LastEntryAt + field + 1] = @ + d]
    /\ tamper' = [NoTamper EXCEPT !.kind = "over", !.at = field]
    /\ stage' = "delivered"
    /\ UNCHANGED <<files, created, finalBuffer, rebuilt, slack, unpacked>>
    /\ UNCHANGED <<header, processVars, toolVars>>

\* the decode side of uncompressArchive (lines 271-330) on an empty
\* output directory
Unpack(s) ==
    /\ stage = "delivered"
    /\ slack' = s
    /\ unpacked' = UnpackBuffer(EmptyOut, OutDir, decompressed, s)
    /\ stage' = "unpacked"
    /\ UNCHANGED <<files, created, finalBuffer, rebuilt, decompressed, tamper>>
    /\ UNCHANGED <<header, processVars, toolVars>>

\* the header of one entry is written (lines 183-186) for a path and a
\* content of the given byte lengths
WriteHeader(pathLength, contentLength) ==
    /\ stage = "input"
    /\ header' = headerBuffer(pathLength, contentLength)
    /\ stage' = "header"
    /\ UNCHANGED <<files, created, finalBuffer, rebuilt, decompressed, tamper, slack,
                   unpacked>>
    /\ UNCHANGED <<processVars, toolVars>>

NextCodec ==
    \/ \E now \in Clock : Encode(now)
    \/ \E perm \in Perms(Len(files)), now \in Clock : Reencode(perm, now)
    \/ Deliver
    \/ \E cut \in 0..(Len(finalBuffer) - 1) : Truncate(cut)
    \/ \E list \in MetaListPool : ReplaceMetadataFiles(list)
    \/ \E kind \in DamageKinds : CorruptMetadata(kind)
    \/ \E field \in {0, 4}, d \in {1, 3} : Overdeclare(field, d)
    \/ \E s \in SlackPool : Unpack(s)
    \/ \E pathLength \in LengthPool, contentLength \in LengthPool :
           WriteHeader(pathLength, contentLength)

SpecCodec == InitCodec /\ [][NextCodec]_vars

\* the encode side alone: containers are built and rebuilt, none is unpacked
NextEncode ==
    \/ \E now \in Clock : Encode(now)
    \/ \E perm \in Perms(Len(files)), now \in Clock : Reencode(perm, now)

SpecEncode == InitCodec /\ [][NextEncode]_vars

(***************************************************************************)
(* The process: a working directory that holds the directory "d" and the   *)
(* empty directory "out"; an archive reaches it by a compress run or from  *)
(* elsewhere, and an uncompress run follows.                               *)
(***************************************************************************)
\* "a", "s/b", "s/c": the files the directory d may hold
NamePool == {<<97>>, <<115, 47, 98>>, <<115, 47, 99>>}

\* the trees of at most MaxFiles files
TreePool ==
    UNION {[N -> ContentPool] : N \in {M \in SUBSET NamePool : Cardinality(M) <= MaxFiles}}

\* the working directory with the tree t in d
DiskOf(t) ==
    [dirs |-> {<<100>>, <<111, 117, 116>>}
              \cup {<<100, 47, 115>> : n \in {m \in DOMAIN t : Len(m) > 1}},
     files |-> [k \in {<<100, 47>> \o n : n \in DOMAIN t} |-> t[SubSeq(k, 3, Len(k))]]]

\* "d", "d/", "d/a"
DirArgs == {<<100>>, <<100, 47>>, <<100, 47, 97>>}

\* no output file, "x.bunz"
OutFileArgs == {<<>>, <<120, 46, 98, 117, 110, 122>>}

\* no flag, "--level=1", "--level=0", "--level=10", "--level=-2", "-l=abc"
LevelFlags ==
    {<<>>,
     <<45, 45, 108, 101, 118, 101, 108, 61, 49>>,
     <<45, 45, 108, 101, 118, 101, 108, 61, 48>>,
     <<45, 45, 108, 101, 118, 101, 108, 61, 49, 48>>,
     <<45, 45, 108, 101, 118, 101, 108, 61, 45, 50>>,
     <<45, 108, 61, 97, 98, 99>>}

\* "d.bunz", "x.bunz", "d"
ArchiveArgs == {<<100, 46, 98, 117, 110, 122>>, <<120, 46, 98, 117, 110, 122>>, <<100>>}

\* no output directory, "out"
OutDirArgs == {<<>>, <<111, 117, 116>>}

\* containers made elsewhere: one without files, and one file "hi" under
\* each of the paths "../x", "/etc/x", "a"
ForeignPool ==
    {AssembleBuffers(textToUint8Array(JSONstringify(ArchiveMetadata(<<>>, 0))), <<>>)}
    \cup {BuildContainer(<<[path |-> p, content |-> <<104, 105>>]>>, 0) :
             p \in {<<46, 46, 47, 120>>, <<47, 101, 116, 99, 47, 120>>, <<97>>}}

\* the regular files below the directory k, by their path relative to k
TreeAt(fs, k) ==
    {[path |-> SubSeq(x, Len(k) + 2, Len(x)), content |-> fs.files[x]] :
        x \in {y \in DOMAIN fs.files :
                  Len(y) > Len(k) + 1 /\ SubSeq(y, 1, Len(k) + 1) = k \o <<47>>}}

Init ==
    /\ files = <<>>
    /\ created = 0
    /\ finalBuffer = <<>>
    /\ rebuilt = <<>>
    /\ decompressed = <<>>
    /\ tamper = NoTamper
    /\ slack = <<>>
    /\ unpacked = NotUnpacked
    /\ header = NoHeader
    /\ disk \in {DiskOf(t) : t \in TreePool}
    /\ last = NoCommand
    /\ packed = NotPacked
    /\ pack = NotPacking
    /\ gz = NotExtracting
    /\ loop = NotLooping
    /\ view = NoView
    /\ stage = "fresh"

\* the command cmd ran on input with the level flag and ended as r
Ran(cmd, input, flag, r) ==
    /\ disk' = r.fs
    /\ last' = [cmd |-> cmd, status |-> r.status, input |-> input, output |-> r.output,
                flag |-> flag, level |-> r.level, gzip |-> r.gzip, before |-> disk]
    /\ packed' = IF cmd = "compress" /\ r.status = "ok"
                 THEN [archive |-> FsKey(r.output), from |-> input,
                       tree |-> TreeAt(disk, FsKey(input))]
                 ELSE packed
    /\ UNCHANGED <<codecVars, toolVars>>

\* bun archiver.ts [flag] compress directoryPath [outputFile]
Compress(flag, directoryPath, outputFile, now, reverse) ==
    /\ stage = "fresh"
    /\ stage' = "ready"
    /\ Ran("compress", directoryPath, flag,
           compressDirectory(disk, directoryPath, outputFile, level(flag), now, reverse))

\* an archive made elsewhere is saved as x.bunz
PlaceArchive(buffer) ==
    /\ stage = "fresh"
    /\ stage' = "ready"
    /\ disk' = writeFileSync(disk, <<120, 46, 98, 117, 110, 122>>, gzipSync(buffer, 9)).fs
    /\ UNCHANGED <<last, packed>>
    /\ UNCHANGED <<codecVars, toolVars>>

\* bun archiver.ts uncompress archivePath [outputDir]
Uncompress(archivePath, outputDir, s) ==
    /\ stage = "ready"
    /\ stage' = "done"
    /\ Ran("uncompress", archivePath, <<>>,
           uncompressArchive(disk, archivePath, outputDir, s))

Next ==
    \/ \E flag \in LevelFlags, directoryPath \in DirArgs, outputFile \in OutFileArgs,
          now \in Clock, reverse \in BOOLEAN :
           Compress(flag, directoryPath, outputFile, now, reverse)
    \/ \E buffer \in ForeignPool : PlaceArchive(buffer)
    \/ \E archivePath \in ArchiveArgs, outputDir \in OutDirArgs, s \in SlackPool :
           Uncompress(archivePath, outputDir, s)

Spec == Init /\ [][Next]_vars

(***************************************************************************)
(* The gzip extractor (src/unnamed/part_000): library functions.           *)
(***************************************************************************)
\* s.startsWith(p), s.endsWith(p)
startsWith(s, p) == Len(s) >= Len(p) /\ SubSeq(s, 1, Len(p)) = p

endsWith(s, p) == Len(s) >= Len(p) /\ SubSeq(s, Len(s) - Len(p) + 1, Len(s)) = p

\* the position of the first occurrence of pat in s (Len(s) + 1: none)
FirstIndexOf(s, pat) ==
    Least({i \in 1..(Len(s) - Len(pat) + 1) : SubSeq(s, i, i + Len(pat) - 1) = pat}
          \cup {Len(s) + 1})

ReplaceAt(s, i, pat, rep) ==
    IF i > Len(s) THEN s
    ELSE SubSeq(s, 1, i - 1) \o rep \o SubSeq(s, i + Len(pat), Len(s))

\* s.replace(pat, rep) for a string pat: the first occurrence only
replace(s, pat, rep) == ReplaceAt(s, FirstIndexOf(s, pat), pat, rep)

\* the segments of a path relative to the working directory
PathSegs(p) == NormSegs(SplitSlash(p), <<>>, TRUE)

\* the number of leading segments a and b share
CommonPrefixLen(a, b) ==
    Least({i \in 0..Min(Len(a), Len(b)) : i = Min(Len(a), Len(b)) \/ a[i + 1] # b[i + 1]})

\* ".." for each segment of a after the first k, then b after its first k
RelativeFrom(a, b, k) ==
    JoinSlash([i \in 1..(Len(a) - k) |-> <<46, 46>>] \o SubSeq(b, k + 1, Len(b)))

RelativeSegs(a, b) == RelativeFrom(a, b, CommonPrefixLen(a, b))

\* path.relative(from, to), both relative to the working directory
relative(from, to) == RelativeSegs(PathSegs(from), PathSegs(to))

\* "\n" and depth indentation steps of two spaces
Indent(depth) == <<10>> \o [i \in 1..(2 * depth) |-> 32]

RECURSIVE JoinWith(_, _)
JoinWith(items, sep) ==
    IF items = <<>> THEN <<>>
    ELSE IF Len(items) = 1 THEN items[1]
    ELSE items[1] \o sep \o JoinWith(Tail(items), sep)

\* JSON.stringify(v, null, 2) of a parsed value v, nested depth deep
\* (numbers of the model are non-negative integers; member names are distinct)
RECURSIVE JsonPretty(_, _)
JsonPretty(v, depth) ==
    IF v.t = "string" THEN JsonQuote(v.s)
    ELSE IF v.t = "number" THEN Digits(v.n)
    ELSE IF v.t = "true" THEN <<116, 114, 117, 101>>
    ELSE IF v.t = "false" THEN <<102, 97, 108, 115, 101>>
    ELSE IF v.t = "null" THEN <<110, 117, 108, 108>>
    ELSE IF v.t = "array"
    THEN IF v.e = <<>> THEN <<91, 93>>
         ELSE <<91>> \o Indent(depth + 1)
              \o JoinWith([i \in 1..Len(v.e) |-> JsonPretty(v.e[i], depth + 1)],
                          <<44>> \o Indent(depth + 1))
              \o Indent(depth) \o <<93>>
    ELSE IF v.m = <<>> THEN <<123, 125>>
    ELSE <<123>> \o Indent(depth + 1)
         \o JoinWith([i \in 1..Len(v.m) |->
                         JsonQuote(v.m[i].k) \o <<58, 32>>
                         \o JsonPretty(v.m[i].v, depth + 1)],
                     <<44>> \o Indent(depth + 1))
         \o Indent(depth) \o <<125>>

(***************************************************************************)
(* The gzip extractor: findFiles, extractFile, extractDirectory, main.     *)
(***************************************************************************)
\* "quran"
ROOT_DIR == <<113, 117, 114, 97, 110>>

\* ".gz", ".json"
GzExt == <<46, 103, 122>>

JsonExt == <<46, 106, 115, 111, 110>>

\* findFiles(dir, ext): the paths of the regular files below dir that end
\* with ext, in the order met; a directory that cannot be read yields none
RECURSIVE findFiles(_, _, _, _), FindEntries(_, _, _, _, _, _), FindEntry(_, _, _, _, _, _, _)
findFiles(fs, dir, ext, reverse) ==
    FindEntries(fs, dir, ext, reverse, readdir(fs, dir, reverse), <<>>)

\* the for loop of lines 57-68 over the remaining entries
FindEntries(fs, dir, ext, reverse, entries, results) ==
    IF entries = <<>> THEN results
    ELSE FindEntry(fs, dir, ext, reverse, Tail(entries), join(dir, Head(entries)), results)

\* lines 58-67 for the entry at fullPath
FindEntry(fs, dir, ext, reverse, rest, fullPath, results) ==
    FindEntries(fs, dir, ext, reverse, rest,
        IF FsIsDir(fs, FsKey(fullPath))
        THEN results \o findFiles(fs, fullPath, ext, reverse)
        ELSE IF endsWith(fullPath, ext) THEN Append(results, fullPath)
        ELSE results)

\* lines 99-104: the parsed data is written; an error is caught and logged
WriteJson(made, filePath, outputPath, text) ==
    IF ~made.ok THEN [fs |-> made.fs, log |-> <<>>]
    ELSE IF ~writeFileSync(made.fs, outputPath, text).ok THEN [fs |-> made.fs, log |-> <<>>]
    ELSE [fs |-> writeFileSync(made.fs, outputPath, text).fs,
          log |-> <<[file |-> filePath, outputPath |-> outputPath]>>]

\* lines 96-104 for the outcome parsed of JSON.parse
WriteParsed(fs, filePath, outputPath, parsed) ==
    IF ~parsed.ok THEN [fs |-> fs, log |-> <<>>]
    ELSE WriteJson(mkdirSync(fs, dirname(outputPath)), filePath, outputPath,
                   textToUint8Array(JsonPretty(parsed.v, 0)))

\* lines 89-104 for the outcome gunzipped of gunzipSync
WriteGunzipped(fs, filePath, outputPath, gunzipped) ==
    IF ~gunzipped.ok THEN [fs |-> fs, log |-> <<>>]
    ELSE WriteParsed(fs, filePath, outputPath,
                     JSONparse(uint8ArrayToText(gunzipped.data)))

\* extractFile(filePath, outputPath): the file system after it, and the
\* (file, outputPath) pair when the file was written
extractFile(fs, filePath, outputPath) ==
    IF stat(fs, filePath) # "file" THEN [fs |-> fs, log |-> <<>>]
    ELSE WriteGunzipped(fs, filePath, outputPath, gunzipSync(fs.files[FsKey(filePath)]))

\* the for loop of lines 127-134 over the remaining files
RECURSIVE ExtractEach(_, _, _, _, _), ExtractNext(_, _, _, _, _)
ExtractEach(fs, dirPath, OUT_DIR, todo, log) ==
    IF todo = <<>> THEN [fs |-> fs, log |-> log]
    ELSE ExtractNext(dirPath, OUT_DIR, Tail(todo), log,
             extractFile(fs, Head(todo),
                 replace(join(OUT_DIR, relative(dirPath, Head(todo))), GzExt, JsonExt)))

ExtractNext(dirPath, OUT_DIR, rest, log, done) ==
    ExtractEach(done.fs, dirPath, OUT_DIR, rest, log \o done.log)

\* extractDirectory(dirPath)
extractDirectory(fs, dirPath, OUT_DIR, reverse) ==
    ExtractEach(fs, dirPath, OUT_DIR, findFiles(fs, dirPath, GzExt, reverse), <<>>)

\* lines 162-175 for the path filePath with its extension
ExtractOne(fs, OUT_DIR, fullPath) ==
    extractFile(fs, fullPath,
                join(OUT_DIR, replace(relative(ROOT_DIR, fullPath), GzExt, JsonExt)))

\* lines 150-188 after fs.ensureDir(OUT_DIR); an option <<>> is not given
MainOption(fs, argv) ==
    IF argv.all THEN extractDirectory(fs, ROOT_DIR, argv.out, argv.reverse)
    ELSE IF argv.path # <<>>
    THEN extractDirectory(fs,
             IF startsWith(argv.path, ROOT_DIR) THEN argv.path
             ELSE join(ROOT_DIR, argv.path),
             argv.out, argv.reverse)
    ELSE IF argv.file # <<>>
    THEN ExtractOne(fs, argv.out,
             IF startsWith(IF endsWith(argv.file, GzExt) THEN argv.file
                           ELSE argv.file \o GzExt, ROOT_DIR)
             THEN (IF endsWith(argv.file, GzExt) THEN argv.file ELSE argv.file \o GzExt)
             ELSE join(ROOT_DIR, IF endsWith(argv.file, GzExt) THEN argv.file
                                 ELSE argv.file \o GzExt))
    ELSE [fs |-> fs, log |-> <<>>]

\* main() once fs.ensureDir(OUT_DIR) had the outcome made
MainMade(made, argv) ==
    IF ~made.ok THEN [fs |-> made.fs, log |-> <<>>, status |-> "exit1"]
    ELSE [status |-> "ok"] @@ MainOption(made.fs, argv)

\* main(): fs-extra's ensureDir is mkdir -p
main(fs, argv) == MainMade(mkdirSync(fs, argv.out), argv)

(***************************************************************************)
(* The gzip extractor as a state machine: a dataset below quran/, then one *)
(* run of main() with the options argv.                                    *)
(***************************************************************************)
\* "w.gz", "t/1.gz", "t/s/2.gz"
GzNamePool == {<<119>> \o GzExt, <<116, 47, 49>> \o GzExt, <<116, 47, 115, 47, 50>> \o GzExt}

\* {"a":1} and [] gzipped, and a gzip stream whose text is not JSON
GzContentPool ==
    {gzipSync(<<123, 34, 97, 34, 58, 49, 125>>, 9), gzipSync(<<91, 93>>, 9),
     gzipSync(<<123>>, 9)}

GzTreePool ==
    UNION {[N -> GzContentPool] : N \in {M \in SUBSET GzNamePool : Cardinality(M) <= MaxFiles}}

\* the directories above the file named n
RECURSIVE DirsAbove(_)
DirsAbove(n) == IF dirname(n) = <<46>> THEN {} ELSE {dirname(n)} \cup DirsAbove(dirname(n))

\* the working directory with the dataset t and the file i.md in quran
DatasetOf(t) ==
    [dirs |-> {ROOT_DIR} \cup UNION {DirsAbove(join(ROOT_DIR, n)) : n \in DOMAIN t},
     files |-> [k \in {join(ROOT_DIR, n) : n \in DOMAIN t} \cup {join(ROOT_DIR, <<105, 46, 109, 100>>)}
                   |-> IF k = join(ROOT_DIR, <<105, 46, 109, 100>>) THEN <<35>>
                       ELSE t[SubSeq(k, Len(ROOT_DIR) + 2, Len(k))]]]

\* --path: "quran", "quran/t", "t", "t/s"
PathArgs ==
    {ROOT_DIR, join(ROOT_DIR, <<116>>), <<116>>, <<116, 47, 115>>}

\* --file: "quran/t/1.gz", "t/1", "w", "t/s/2.gz"
FileArgs ==
    {join(ROOT_DIR, <<116, 47, 49>> \o GzExt), <<116, 47, 49>>, <<119>>,
     <<116, 47, 115, 47, 50>> \o GzExt}

\* --out: "out" (the default), "quran/i.md" (a file of the dataset)
OutArgs == {<<111, 117, 116>>, <<113, 117, 114, 97, 110, 47, 105, 46, 109, 100>>}

ArgvPool ==
    {[all |-> a, path |-> p, file |-> f, out |-> o, reverse |-> r] :
        a \in BOOLEAN, p \in {<<>>} \cup PathArgs, f \in {<<>>} \cup FileArgs,
        o \in OutArgs, r \in BOOLEAN}

\* the branch of main() that the options select
OptionOf(argv) ==
    IF argv.all THEN "all" ELSE IF argv.path # <<>> THEN "path"
    ELSE IF argv.file # <<>> THEN "file" ELSE "usage"

InitExtract ==
    /\ files = <<>>
    /\ created = 0
    /\ finalBuffer = <<>>
    /\ rebuilt = <<>>
    /\ decompressed = <<>>
    /\ tamper = NoTamper
    /\ slack = <<>>
    /\ unpacked = NotUnpacked
    /\ header = NoHeader
    /\ disk \in {DatasetOf(t) : t \in GzTreePool}
    /\ last = NoCommand
    /\ packed = NotPacked
    /\ pack = NotPacking
    /\ gz = NotExtracting
    /\ loop = NotLooping
    /\ view = NoView
    /\ stage = "dataset"

\* main() ran with argv and ended as r
Extracted(argv, r) ==
    /\ disk' = r.fs
    /\ gz' = [option |-> OptionOf(argv), argv |-> argv, log |-> r.log, status |-> r.status]
    /\ stage' = "extracted"
    /\ UNCHANGED <<codecVars, last, packed, pack, loop, view>>

Main ==
    /\ stage = "dataset"
    /\ \E argv \in ArgvPool : Extracted(argv, main(disk, argv))

NextExtract == Main

SpecExtract == InitExtract /\ [][NextExtract]_vars

(***************************************************************************)
(* compressDirectory step by step: one action per stage of the function,   *)
(* from the stat of the directory to the report or process.exit(1).        *)
(* pack.done lists the stages completed, pack.writes counts the successful *)
(* calls of writeFileSync, pack.stats is what the success report prints.   *)
(***************************************************************************)
NoStats == [reported |-> FALSE, fileCount |-> 0, originalSize |-> 0, compressedSize |-> 0]

\* the call compressDirectory(directoryPath, outputFile) about to run on fs
PackCall(fs, directoryPath, outputFile, lv, reverse) ==
    [pc |-> "stat", directoryPath |-> directoryPath, outputFile |-> outputFile,
     level |-> lv, reverse |-> reverse, before |-> fs, files |-> <<>>,
     finalBuffer |-> <<>>, metadataLength |-> 0, totalContentSize |-> 0,
     compressed |-> <<>>, writes |-> 0, done |-> <<>>, stats |-> NoStats]

\* the catch block (lines 236-239) and the exits of lines 135 and 147
PackExit(p) == [p EXCEPT !.pc = "exit1"]

\* lines 132-139 for the outcome st of stat(directoryPath)
StatStep(p, st) ==
    IF st # "dir" THEN PackExit(p)
    ELSE [p EXCEPT !.pc = "read", !.done = Append(@, "stat"),
                   !.outputFile = IF @ = <<>>
                                  THEN basename(p.directoryPath, <<>>) \o DEFAULT_EXTENSION
                                  ELSE @]

\* lines 142-148 for the files object read (readable: no read threw)
ReadStep(p, readable, read) ==
    IF ~readable \/ Len(read) = 0 THEN PackExit(p)
    ELSE [p EXCEPT !.pc = "build", !.done = Append(@, "read"), !.files = read]

\* metadataBuffer.length of the container buf
MetadataLengthOf(buf) == getUint32(buf, 0)

\* line 174: the sum of the content lengths
RECURSIVE TotalContentSize(_)
TotalContentSize(obj) ==
    IF obj = <<>> THEN 0 ELSE Len(Head(obj).content) + TotalContentSize(Tail(obj))

\* lines 159-217 for the container buf built
BuildStep(p, buf) ==
    [p EXCEPT !.pc = "gzip", !.done = Append(@, "build"), !.finalBuffer = buf,
              !.metadataLength = MetadataLengthOf(buf),
              !.totalContentSize = TotalContentSize(p.files)]

\* line 222
GzipStep(p) ==
    IF ~GzipLevelOk(p.level) THEN PackExit(p)
    ELSE [p EXCEPT !.pc = "write", !.done = Append(@, "gzip"),
                   !.compressed = gzipSync(p.finalBuffer, p.level)]

\* a write step that goes on to the report whatever writeFileSync did
WriteStepUnchecked(p, wrote) ==
    [p EXCEPT !.pc = "report", !.done = Append(@, "write"),
              !.writes = IF wrote.ok THEN @ + 1 ELSE @]

\* line 225 for the outcome wrote of writeFileSync(outputFile, compressed)
WriteStep(p, wrote) ==
    IF ~wrote.ok THEN PackExit(p)
    ELSE [p EXCEPT !.pc = "report", !.done = Append(@, "write"), !.writes = @ + 1]

\* lines 228-235: the numbers of the success report
ReportStep(p) ==
    [p EXCEPT !.pc = "done", !.done = Append(@, "report"),
              !.stats = [reported |-> TRUE, fileCount |-> Len(p.files),
                         originalSize |-> p.totalContentSize + p.metadataLength,
                         compressedSize |-> Len(p.compressed)]]

\* output files: none, "x.bunz", "d" (a directory: writeFileSync throws)
PackOutArgs == {<<>>, <<120, 46, 98, 117, 110, 122>>, <<100>>}

\* no flag, --level=1, --level=10
PackFlags ==
    {<<>>, <<45, 45, 108, 101, 118, 101, 108, 61, 49>>,
     <<45, 45, 108, 101, 118, 101, 108, 61, 49, 48>>}

InitPack ==
    /\ files = <<>>
    /\ created = 0
    /\ finalBuffer = <<>>
    /\ rebuilt = <<>>
    /\ decompressed = <<>>
    /\ tamper = NoTamper
    /\ slack = <<>>
    /\ unpacked = NotUnpacked
    /\ header = NoHeader
    /\ disk \in {DiskOf(t) : t \in TreePool}
    /\ last = NoCommand
    /\ packed = NotPacked
    /\ pack = NotPacking
    /\ gz = NotExtracting
    /\ loop = NotLooping
    /\ view = NoView
    /\ stage = "idle"

\* the run goes on as p, the other state as it is
PackGoes(p) ==
    /\ pack' = p
    /\ UNCHANGED <<codecVars, processVars, gz, loop, view, stage>>

PackStart(flag, directoryPath, outputFile, reverse) ==
    /\ stage = "idle"
    /\ stage' = "packing"
    /\ pack' = PackCall(disk, directoryPath, outputFile, level(flag), reverse)
    /\ UNCHANGED <<codecVars, processVars, gz, loop, view>>

PackStat ==
    /\ stage = "packing" /\ pack.pc = "stat"
    /\ PackGoes(StatStep(pack, stat(disk, pack.directoryPath)))

PackRead(readable) ==
    /\ stage = "packing" /\ pack.pc = "read"
    /\ PackGoes(ReadStep(pack, readable,
           readFilesRecursively(disk, pack.directoryPath, pack.directoryPath, pack.reverse)))

PackBuild(now) ==
    /\ stage = "packing" /\ pack.pc = "build"
    /\ PackGoes(BuildStep(pack, BuildContainer(pack.files, now)))

PackGzip ==
    /\ stage = "packing" /\ pack.pc = "gzip"
    /\ PackGoes(GzipStep(pack))

\* writeFileSync had the outcome wrote
PackWrote(wrote) ==
    /\ disk' = wrote.fs
    /\ pack' = WriteStep(pack, wrote)
    /\ UNCHANGED <<codecVars, last, packed, gz, loop, view, stage>>

PackWrite ==
    /\ stage = "packing" /\ pack.pc = "write"
    /\ PackWrote(writeFileSync(disk, pack.outputFile, pack.compressed))

PackReport ==
    /\ stage = "packing" /\ pack.pc = "report"
    /\ PackGoes(ReportStep(pack))

NextPack ==
    \/ \E flag \in PackFlags, directoryPath \in DirArgs, outputFile \in PackOutArgs,
          reverse \in BOOLEAN :
           PackStart(flag, directoryPath, outputFile, reverse)
    \/ PackStat
    \/ \E readable \in BOOLEAN : PackRead(readable)
    \/ \E now \in Clock : PackBuild(now)
    \/ PackGzip
    \/ PackWrite
    \/ PackReport

SpecPack == InitPack /\ [][NextPack]_vars

(***************************************************************************)
(* The extraction loop of uncompressArchive (lines 293-327) turn by turn.  *)
(* loop.offset is the read offset, loop.turns counts the turns begun,      *)
(* loop.pc is "loop" while the while statement runs, "done" after it left  *)
(* normally and "exit1" after a turn threw.                                *)
(***************************************************************************)
\* line 321: the entry is written after ensureDirectoryExists ended as made
TurnWritten(fs, made, offset, entry, fullPath, log) ==
    IF ~made.ok
    THEN [status |-> "IOError", fs |-> fs, log |-> log, offset |-> offset]
    ELSE IF ~writeFileSync(made.fs, fullPath, entry.content).ok
    THEN [status |-> "IOError", fs |-> made.fs, log |-> log, offset |-> offset]
    ELSE [status |-> "next", fs |-> writeFileSync(made.fs, fullPath, entry.content).fs,
          log |-> Append(log, entry), offset |-> offset]

\* lines 314-318
TurnWrite(fs, offset, entry, fullPath, log) ==
    TurnWritten(fs, ensureDirectoryExists(fs, dirname(fullPath)), offset, entry,
                fullPath, log)

\* lines 304-311: offset is past the header; the subarrays are clamped
TurnEntry(fs, outputDir, buf, offset, pathLength, contentLength, log) ==
    TurnWrite(fs, offset + pathLength + contentLength,
              [path |-> uint8ArrayToText(Slice(buf, offset, offset + pathLength)),
               content |-> Slice(buf, offset + pathLength,
                                 offset + pathLength + contentLength)],
              join(outputDir,
                   uint8ArrayToText(Slice(buf, offset, offset + pathLength))),
              log)

\* a body that leaves the offset where the turn found it
LoopBodyStuck(fs, outputDir, buf, behind, offset, log) ==
    [status |-> "next", fs |-> fs, log |-> log, offset |-> offset]

\* the body of the while statement (lines 298-326), once: status "next"
\* when the turn came to its end, the name of the error when it threw
LoopBody(fs, outputDir, buf, behind, offset, log) ==
    IF offset + 8 > Len(buf) + Len(behind)
    THEN [status |-> "RangeError", fs |-> fs, log |-> log, offset |-> offset]
    ELSE TurnEntry(fs, outputDir, buf, offset + 8,
                   getUint32(buf \o behind, offset),
                   getUint32(buf \o behind, offset + 4), log)

\* what reaches the loop: the container as built, cut after its first at
\* bytes, with the last entry declaring more than it has (at is the field, by
\* list[1] more), with list[1] zero bytes for an entry stream, or with the
\* content length of the last entry raised by 65536
LoopTampers(buf, metaEnd) ==
    {NoTamper}
    \cup {[NoTamper EXCEPT !.kind = "cut", !.at = c] : c \in (metaEnd + 1)..(Len(buf) - 1)}
    \cup {[NoTamper EXCEPT !.kind = "over", !.at = f, !.list = <<d>>] :
             f \in {0, 4}, d \in {1, 3}}
    \cup {[NoTamper EXCEPT !.kind = "zeros", !.list = <<k>>] : k \in {1, 8, 9, 16}}
    \cup {[NoTamper EXCEPT !.kind = "far"]}

Tampered(buf, metaEnd, lastAt, t) ==
    IF t.kind = "cut" THEN SubSeq(buf, 1, t.at)
    ELSE IF t.kind = "over" THEN [buf EXCEPT ![lastAt + t.at + 1] = @ + t.list[1]]
    ELSE IF t.kind = "zeros" THEN SubSeq(buf, 1, metaEnd) \o [i \in 1..t.list[1] |-> 0]
    ELSE IF t.kind = "far" THEN [buf EXCEPT ![lastAt + 7] = 1]
    ELSE buf

InitLoop ==
    /\ files \in {f \in FilesPool : Len(f) >= 1}
    /\ created = 0
    /\ finalBuffer = BuildContainer(files, 0)
    /\ rebuilt = <<>>
    /\ tamper \in LoopTampers(finalBuffer, MetaEnd)
    /\ decompressed = Tampered(finalBuffer, MetaEnd, LastEntryAt, tamper)
    /\ slack \in SlackPool
    /\ unpacked = NotUnpacked
    /\ header = NoHeader
    /\ disk = EmptyOut
    /\ last = NoCommand
    /\ packed = NotPacked
    /\ pack = NotPacking
    /\ gz = NotExtracting
    /\ loop = [pc |-> "loop", offset |-> MetaEnd, turns |-> 0, log |-> <<>>]
    /\ view = NoView
    /\ stage = "looping"

\* the loop after a turn that ended as r
AfterTurn(l, r) ==
    [pc |-> IF r.status = "next" THEN "loop" ELSE "exit1",
     offset |-> r.offset, turns |-> l.turns + 1, log |-> r.log]

\* line 297 holds: one turn of the loop
LoopTurn ==
    /\ stage = "looping" /\ loop.pc = "loop"
    /\ loop.offset < Len(decompressed)
    /\ loop' = AfterTurn(loop, LoopBody(disk, OutDir, decompressed, slack,
                                        loop.offset, loop.log))
    /\ disk' = LoopBody(disk, OutDir, decompressed, slack, loop.offset, loop.log).fs
    /\ UNCHANGED <<codecVars, last, packed, pack, gz, view, stage>>

\* line 297 fails: the loop is left for the success report
LoopLeave ==
    /\ stage = "looping" /\ loop.pc = "loop"
    /\ ~(loop.offset < Len(decompressed))
    /\ loop' = [loop EXCEPT !.pc = "done"]
    /\ UNCHANGED <<codecVars, processVars, pack, gz, view, stage>>

NextLoop == LoopTurn \/ LoopLeave

SpecLoop == InitLoop /\ [][NextLoop]_vars

(***************************************************************************)
(* The web viewer (src/js/app.js): cleanPath.                              *)
(***************************************************************************)
\* path.replace(/^\/+/, ''): the path without its leading slashes
RECURSIVE StripLeadingSlashes(_)
StripLeadingSlashes(p) ==
    IF Len(p) > 0 /\ p[1] = 47 THEN StripLeadingSlashes(Tail(p)) ELSE p

\* the pattern `^${ROOT_DIR}/${ROOT_DIR}` of lines 16 and 17
RootRoot == ROOT_DIR \o <<47>> \o ROOT_DIR

\* lines 16-18: a path that begins with the text quran/quran has that text
\* replaced by quran (once; the pattern is anchored and ends on no boundary)
ReduceRootRoot(p) ==
    IF startsWith(p, RootRoot)
    THEN ROOT_DIR \o SubSeq(p, Len(RootRoot) + 1, Len(p))
    ELSE p

\* lines 21-23: a path that does not begin with the text quran gets quran/
\* in front
PrefixRoot(p) == IF startsWith(p, ROOT_DIR) THEN p ELSE ROOT_DIR \o <<47>> \o p

\* path.replace(/\/+/g, '/'): every run of slashes becomes one slash
RECURSIVE CollapseSlashes(_)
CollapseSlashes(p) ==
    IF Len(p) < 2 THEN p
    ELSE IF p[1] = 47 /\ p[2] = 47 THEN CollapseSlashes(Tail(p))
    ELSE <<p[1]>> \o CollapseSlashes(Tail(p))

\* .replace(/\/$/, ''): one slash at the end is removed
StripOneTrailingSlash(p) ==
    IF Len(p) > 0 /\ p[Len(p)] = 47 THEN SubSeq(p, 1, Len(p) - 1) ELSE p

\* cleanPath(path), lines 11-27
cleanPath(path) ==
    StripOneTrailingSlash(CollapseSlashes(
        PrefixRoot(ReduceRootRoot(StripLeadingSlashes(path)))))

(***************************************************************************)
(* cleanPath applied to a path string, and again to its result.  view.pc   *)
(* is "path" before the first call, "once" after it, "twice" after the     *)
(* second.                                                                 *)
(***************************************************************************)
MaxSegs == 4          \* segments in one path string

\* the segments the path strings are made of: quran, quranic, a and the
\* empty segment (two slashes in a row, or a slash at either end)
SegPool == {ROOT_DIR, ROOT_DIR \o <<105, 99>>, <<97>>, <<>>}

\* the strings of n segments joined by slashes
RECURSIVE PathsOf(_)
PathsOf(n) ==
    IF n = 1 THEN SegPool
    ELSE {s \o <<47>> \o p : s \in SegPool, p \in PathsOf(n - 1)}

HashPathPool == UNION {PathsOf(n) : n \in 1..MaxSegs}

InitClean ==
    /\ files = <<>>
    /\ created = 0
    /\ finalBuffer = <<>>
    /\ rebuilt = <<>>
    /\ decompressed = <<>>
    /\ tamper = NoTamper
    /\ slack = <<>>
    /\ unpacked = NotUnpacked
    /\ header = NoHeader
    /\ disk = EmptyOut
    /\ last = NoCommand
    /\ packed = NotPacked
    /\ pack = NotPacking
    /\ gz = NotExtracting
    /\ loop = NotLooping
    /\ view \in {[pc |-> "path", path |-> p, once |-> <<>>, twice |-> <<>>] : p \in HashPathPool}
    /\ stage = "cleaning"

\* cleanPath(path)
CleanOnce ==
    /\ stage = "cleaning"
    /\ view.pc = "path"
    /\ view' = [view EXCEPT !.pc = "once", !.once = cleanPath(view.path)]
    /\ UNCHANGED <<codecVars, processVars, pack, gz, loop, stage>>

\* cleanPath(cleanPath(path))
CleanTwice ==
    /\ stage = "cleaning"
    /\ view.pc = "once"
    /\ view' = [view EXCEPT !.pc = "twice", !.twice = cleanPath(view.once)]
    /\ UNCHANGED <<codecVars, processVars, pack, gz, loop, stage>>

NextClean == CleanOnce \/ CleanTwice

SpecClean == InitClean /\ [][NextClean]_vars

(***************************************************************************)
(* The web viewer (src/js/app.js): the static site it is served from, the  *)
(* directory listing, and the three renderings of the content container.   *)
(***************************************************************************)
\* basename(path), lines 30-33: the text after the last slash
basenameOf(path) == LastOf(SplitSlash(path))

Link(href) == [href |-> href, text |-> href]

NoResponse == [ok |-> FALSE, status |-> 0, body |-> <<>>, links |-> <<>>]

\* the site: quran/ holds the directory t, the files i.gz ({"a":1}) and
\* n.txt; quran/t/ holds the file 1.gz, whose content ({) is no JSON text.
\* A directory URL answers with the links of its listing, any other URL of
\* the site with 404 and a page without links.
SiteResponse(url) ==
    IF url = ROOT_DIR \o <<47>>
    THEN [ok |-> TRUE, status |-> 200, body |-> <<>>,
          links |-> <<Link(<<46, 46, 47>>), Link(<<116, 47>>),
                      Link(<<105>> \o GzExt), Link(<<110, 46, 116, 120, 116>>)>>]
    ELSE IF url = ROOT_DIR \o <<47, 116, 47>>
    THEN [ok |-> TRUE, status |-> 200, body |-> <<>>,
          links |-> <<Link(<<46, 46, 47>>), Link(<<49>> \o GzExt)>>]
    ELSE IF url = ROOT_DIR \o <<47, 105>> \o GzExt
    THEN [ok |-> TRUE, status |-> 200, links |-> <<>>,
          body |-> gzipSync(<<123, 34, 97, 34, 58, 49, 125>>, 9)]
    ELSE IF url = ROOT_DIR \o <<47, 116, 47, 49>> \o GzExt
    THEN [ok |-> TRUE, status |-> 200, links |-> <<>>, body |-> gzipSync(<<123>>, 9)]
    ELSE [ok |-> FALSE, status |-> 404, body |-> <<>>, links |-> <<>>]

\* 'Parent Directory'
ParentDirectoryText ==
    <<80, 97, 114, 101, 110, 116, 32, 68, 105, 114, 101, 99, 116, 111, 114, 121>>

NoItems == [directories |-> <<>>, files |-> <<>>]

\* one turn of the loop over the links, lines 63-98
DetectLink(link, currentDir, items) ==
    IF \/ link.href \in {<<>>, <<46, 46, 47>>, <<46, 47>>, <<47>>}
       \/ link.text \in {ParentDirectoryText, <<46, 46, 47>>}
    THEN items
    ELSE IF basenameOf(StripOneTrailingSlash(link.href)) \in {ROOT_DIR, currentDir}
    THEN items
    ELSE IF endsWith(link.href, <<47>>)
    THEN [items EXCEPT !.directories =
              Append(@, [name |-> basenameOf(StripOneTrailingSlash(link.href)),
                         href |-> link.href])]
    ELSE IF endsWith(link.href, GzExt)
    THEN [items EXCEPT !.files =
              Append(@, [name |-> basenameOf(link.href), href |-> link.href])]
    ELSE items

RECURSIVE DetectLinks(_, _, _)
DetectLinks(links, currentDir, items) ==
    IF links = <<>> THEN items
    ELSE DetectLinks(Tail(links), currentDir, DetectLink(Head(links), currentDir, items))

\* the path fetched by detectDirectoryContents(dirPath), line 41
ListingUrl(dirPath) == IF endsWith(dirPath, <<47>>) THEN dirPath ELSE dirPath \o <<47>>

\* detectDirectoryContents(dirPath) once the listing has arrived, lines 47-100
detectDirectoryContents(dirPath, response) ==
    DetectLinks(response.links,
                StripOneTrailingSlash(LastOf(SplitSlash(dirPath))), NoItems)

\* the breadcrumb of lines 143-157: a link for every part but the last
Crumbs(parts) ==
    [i \in 1..Len(parts) |->
        [text |-> parts[i],
         href |-> IF i = Len(parts) THEN <<>> ELSE JoinSlash(SubSeq(parts, 1, i))]]

\* what displayDirectory puts into the content container, lines 129-224
DirectoryView(path, contents) ==
    [kind |-> "directory",
     name |-> basenameOf(path),
     crumbs |-> IF path = ROOT_DIR THEN <<>> ELSE Crumbs(SplitSlash(path)),
     folders |-> [i \in 1..Len(contents.directories) |->
                     [href |-> cleanPath(path \o <<47>> \o contents.directories[i].name),
                      name |-> contents.directories[i].name]],
     files |-> [i \in 1..Len(contents.files) |->
                   [href |-> path \o <<47>> \o contents.files[i].name,
                    name |-> replace(contents.files[i].name, GzExt, <<>>)]],
     none |-> contents.directories = <<>> /\ contents.files = <<>>]

\* the path fetched by displayDirectory for the cleaned path, lines 119-126
DirectoryUrl(path) == ListingUrl(path \o <<47>>)

\* the path fetched by loadGzFile, lines 233-236
FileUrl(path) ==
    IF ~startsWith(path, ROOT_DIR \o <<47>>) /\ path # ROOT_DIR
    THEN ROOT_DIR \o <<47>> \o path
    ELSE path

LoadingView(text) == [kind |-> "loading", text |-> text]

\* the catch of lines 315-323
ErrorView(message) == [kind |-> "error", message |-> message]

\* the directory of the back button, lines 261-269
BackPath(dirPath) ==
    cleanPath(IF dirPath = <<>> THEN ROOT_DIR
              ELSE IF ~startsWith(dirPath, ROOT_DIR) THEN ROOT_DIR \o <<47>> \o dirPath
              ELSE dirPath)

\* lines 257-313: the file view of the parsed JSON
FileViewOf(parts, jsonData) ==
    [kind |-> "file",
     dirPath |-> BackPath(JoinSlash(SubSeq(parts, 1, Len(parts) - 1))),
     name |-> replace(LastOf(parts), GzExt, <<>>),
     json |-> jsonData]

\* lines 254-313
FileParsed(path, parsed) ==
    IF ~parsed.ok THEN ErrorView("JSON.parse: unexpected input")
    ELSE FileViewOf(SplitSlash(path), parsed.v)

\* lines 249-313
FileGunzipped(path, gunzipped) ==
    IF ~gunzipped.ok THEN ErrorView("invalid gzip data")
    ELSE FileParsed(path, JSONparse(uint8ArrayToText(gunzipped.data)))

\* what loadGzFile puts into the content container once the body of the
\* response has arrived, lines 245-323
FileView(path, response) == FileGunzipped(path, gunzipSync(response.body))

(***************************************************************************)
(* The viewer as a state machine.  view.hash is the fragment of the        *)
(* location, view.events counts the calls of handleRoute that are due (the *)
(* initial call of line 349 and one for every hashchange event),           *)
(* view.pending holds the calls of displayDirectory and loadGzFile that    *)
(* wait for the network, oldest first, view.content is what the content    *)
(* container shows.  view.changes counts the changes of the hash and       *)
(* view.overlapped records that a call was started while another waited.   *)
(***************************************************************************)
MaxChanges == 2       \* changes of the hash made by the user

\* "", quran, quran/t, t, quran/i.gz, i.gz, quran/t/1.gz, quran/x.gz
HashPool ==
    {<<>>, ROOT_DIR, ROOT_DIR \o <<47, 116>>, <<116>>,
     ROOT_DIR \o <<47, 105>> \o GzExt, <<105>> \o GzExt,
     ROOT_DIR \o <<47, 116, 47, 49>> \o GzExt, ROOT_DIR \o <<47, 120>> \o GzExt}

InitView ==
    /\ files = <<>>
    /\ created = 0
    /\ finalBuffer = <<>>
    /\ rebuilt = <<>>
    /\ decompressed = <<>>
    /\ tamper = NoTamper
    /\ slack = <<>>
    /\ unpacked = NotUnpacked
    /\ header = NoHeader
    /\ disk = EmptyOut
    /\ last = NoCommand
    /\ packed = NotPacked
    /\ pack = NotPacking
    /\ gz = NotExtracting
    /\ loop = NotLooping
    /\ view \in {[hash |-> h, events |-> 1, pending |-> <<>>, content |-> LoadingView(""),
                  changes |-> 0, overlapped |-> FALSE] : h \in HashPool}
    /\ stage = "viewing"

\* a call waiting for the network
Waiting(fn, path, url) ==
    [fn |-> fn, path |-> path, url |-> url, pc |-> "fetch", response |-> NoResponse]

\* handleRoute started the call c and put up its loading message
Started(c, text) ==
    [view EXCEPT !.events = @ - 1,
                 !.pending = Append(@, c),
                 !.content = LoadingView(text),
                 !.overlapped = @ \/ view.pending # <<>>]

\* the user follows a link, edits the address or goes back: the fragment
\* changes and a hashchange event is due
SetHash(h) ==
    /\ stage = "viewing"
    /\ view.changes < MaxChanges
    /\ h # view.hash
    /\ view' = [view EXCEPT !.hash = h, !.events = @ + 1, !.changes = @ + 1]
    /\ UNCHANGED <<codecVars, processVars, pack, gz, loop, stage>>

\* handleRoute(), lines 327-343, with the synchronous part of the function
\* it calls (lines 229 and 38)
handleRoute ==
    /\ stage = "viewing"
    /\ view.events > 0
    /\ view' = IF view.hash = <<>>
               THEN [view EXCEPT !.hash = ROOT_DIR]
               ELSE IF endsWith(view.hash, GzExt)
               THEN Started(Waiting("loadGzFile", view.hash, FileUrl(view.hash)),
                            "Loading file...")
               ELSE Started(Waiting("displayDirectory", cleanPath(view.hash),
                                    DirectoryUrl(cleanPath(view.hash))),
                            "Reading directory contents...")
    /\ UNCHANGED <<codecVars, processVars, pack, gz, loop, stage>>

Without(s, i) == SubSeq(s, 1, i - 1) \o SubSeq(s, i + 1, Len(s))

\* the fetch of the call i is answered (lines 44 and 239-242): the call goes
\* on to read the body, or, in loadGzFile, throws on a response that is not ok
Respond(i) ==
    /\ stage = "viewing"
    /\ i \in 1..Len(view.pending)
    /\ view.pending[i].pc = "fetch"
    /\ view' = IF view.pending[i].fn = "loadGzFile" /\ ~SiteResponse(view.pending[i].url).ok
               THEN [view EXCEPT !.pending = Without(@, i),
                                 !.content = ErrorView("Failed to load file: 404")]
               ELSE [view EXCEPT !.pending[i].pc = "body",
                                 !.pending[i].response = SiteResponse(view.pending[i].url)]
    /\ UNCHANGED <<codecVars, processVars, pack, gz, loop, stage>>

\* the body of the response of the call i has arrived (lines 45 and 245): the
\* rest of the function runs and replaces the content
Render(i) ==
    /\ stage = "viewing"
    /\ i \in 1..Len(view.pending)
    /\ view.pending[i].pc = "body"
    /\ view' = [view EXCEPT
                   !.pending = Without(@, i),
                   !.content =
                       IF view.pending[i].fn = "loadGzFile"
                       THEN FileView(view.pending[i].path, view.pending[i].response)
                       ELSE DirectoryView(view.pending[i].path,
                                detectDirectoryContents(view.pending[i].url,
                                                        view.pending[i].response))]
    /\ UNCHANGED <<codecVars, processVars, pack, gz, loop, stage>>

NextView ==
    \/ \E h \in HashPool : SetHash(h)
    \/ handleRoute
    \/ \E i \in 1..(MaxChanges + 1) : Respond(i)
    \/ \E i \in 1..(MaxChanges + 1) : Render(i)

SpecView == InitView /\ [][NextView]_vars

(***************************************************************************)
(* The claims of the specification, stated on the model.                   *)
(***************************************************************************)
\* C1: codec round-trip. Walking the container built by the encode step, as
\* built, with the decode loop succeeds and yields exactly the (path, content)
\* pairs of the input mapping.
C1_CodecRoundTrip ==
    (stage = "unpacked" /\ tamper.kind = "none")
        => /\ unpacked.status = "ok"
           /\ Range(unpacked.log) = Range(files)

\* C2: determinism. A second encode of the same mapping, enumerated in a
\* different order (and reading the same clock), yields the same container,
\* byte for byte.
C2_Determinism ==
    (/\ stage = "reencoded"
     /\ tamper.list # [i \in 1..Len(files) |-> i]
     /\ tamper.at = created)
        => rebuilt = finalBuffer

\* C3: truncation detection. Decoding a container cut at any offset before
\* its final byte ends in an error, never in success.
C3_TruncationDetected ==
    (stage = "unpacked" /\ tamper.kind = "cut") => unpacked.status # "ok"

\* C4: declared-length mismatch. When the header of an entry declares a path
\* or content length larger than the bytes that remain, decode ends in an
\* error and that entry is not written.
C4_OverdeclaredRejected ==
    (stage = "unpacked" /\ tamper.kind = "over")
        => /\ unpacked.status # "ok"
           /\ Len(unpacked.log) < Len(files)

\* is k the directory o or an entry below it
Inside(k, o) == k = o \/ (Len(k) > Len(o) /\ SubSeq(k, 1, Len(o) + 1) = o \o <<47>>)

\* k exists in fs as a directory without entries
IsEmptyDir(fs, k) ==
    /\ k \in fs.dirs
    /\ \A x \in (fs.dirs \cup DOMAIN fs.files) \ {k} : ~Inside(x, k)

\* the entries of after that before lacks or holds with another content
Changed(before, after) ==
    (after.dirs \ before.dirs)
    \cup {k \in DOMAIN after.files :
             k \notin DOMAIN before.files \/ before.files[k] # after.files[k]}

\* C5: archive round-trip. Uncompressing the archive that compressDirectory
\* wrote of a directory tree, into an empty directory, succeeds and leaves
\* there exactly the relative paths and contents of the tree.
C5_ArchiveRoundTrip ==
    (/\ last.cmd = "uncompress"
     /\ packed.archive # <<>>
     /\ FsKey(last.input) = packed.archive
     /\ IsEmptyDir(last.before, FsKey(last.output)))
        => /\ last.status = "ok"
           /\ TreeAt(disk, FsKey(last.output)) = packed.tree

\* C6: extraction containment. Every file or directory an uncompress run
\* creates or overwrites lies inside its output directory.
C6_Containment ==
    last.cmd = "uncompress"
        => \A k \in Changed(last.before, disk) : Inside(k, FsKey(last.output))

\* C7: decode is independent of metadata.files. A container that differs
\* from the built one only in the list metadata.files is unpacked with the
\* same success or failure and the same files written.
C7_ListIndependent ==
    (stage = "unpacked" /\ tamper.kind = "files")
        => /\ (unpacked.status = "ok")
                  = (UnpackBuffer(EmptyOut, OutDir, finalBuffer, slack).status = "ok")
           /\ unpacked.fs = UnpackBuffer(EmptyOut, OutDir, finalBuffer, slack).fs

\* the number of entries in the entry stream of decompressed, for the
\* containers whose entry stream is whole: built, relisted, or cut at its start
PhysicalEntries == IF tamper.kind = "cut" THEN 0 ELSE Len(files)

\* C8: the empty-archive error is raised exactly when the entry stream holds
\* no entry.
C8_EmptyIffNoEntries ==
    (/\ stage = "unpacked"
     /\ \/ tamper.kind \in {"none", "files"}
        \/ (tamper.kind = "cut" /\ tamper.at = MetaEnd))
        => ((unpacked.status = "NoFiles") <=> (PhysicalEntries = 0))

\* C9: validation errors leave no output. A command that ends with an
\* input-validation error leaves the file system as it was before the call.
C9_ValidationLeavesNoOutput ==
    last.status \in {"NotADirectory", "NotAFile", "NoFilesInDirectory", "NoFiles"}
        => disk = last.before

\* C10: compression level fallback. Whatever the level option holds, the
\* level passed to gzipSync is in 1..9, it is 9 when the option is unparsable
\* or outside 1..9, and the pack succeeds.
C10_LevelFallback ==
    (last.cmd = "compress" /\ last.gzip)
        => /\ last.level \in 1..9
           /\ last.status = "ok"
           /\ (/\ last.flag # <<>>
               /\ \/ parseInt(AfterEquals(last.flag)).nan
                  \/ parseInt(AfterEquals(last.flag)).n \notin 1..9)
                  => last.level = 9

\* C11: oversize entries are rejected at encode time. When the byte length
\* of a path or of a content does not fit an unsigned 32-bit integer, no
\* header is produced for the entry: no length field holds the length
\* reduced modulo 2^32.
C11_OversizeRejected ==
    (/\ stage = "header"
     /\ ~(FitsUint32(header.pathLength) /\ FitsUint32(header.contentLength)))
        => header.bytes = <<>>

\* C12: reported file counts match reality. When the unpacking succeeds, the
\* file count it reports is the number of entries it decoded and wrote; for
\* the container as built it is also the number of files that were packed.
C12_ReportedCountIsWritten ==
    (stage = "unpacked" /\ unpacked.status = "ok")
        => /\ unpacked.fileCount = Len(unpacked.log)
           /\ tamper.kind = "none" => unpacked.fileCount = Len(files)

\* the value of the member called name of the parsed JSON object v
\* (of its last member of that name; undefined when there is none)
Member(v, name) ==
    LET hits == {i \in 1..Len(v.m) : v.m[i].k = name}
    IN  IF v.t # "object" \/ hits = {} THEN [t |-> "undefined"]
        ELSE v.m[CHOOSE i \in hits : \A j \in hits : j <= i].v

\* the descriptors of metadata.files of the container buf, as the pairs
\* (UTF-8 bytes of the path, size), in list order
ListedFiles(buf) ==
    LET parsed == JSONparse(uint8ArrayToText(Slice(buf, 4, 4 + getUint32(buf, 0))))
        list == Member(parsed.v, <<102, 105, 108, 101, 115>>).e
    IN  [i \in 1..Len(list) |->
            [path |-> textToUint8Array(Member(list[i], <<112, 97, 116, 104>>).s),
             size |-> Member(list[i], <<115, 105, 122, 101>>).n]]

\* the records of the entry stream of buf from the byte offset on, read by
\* their declared lengths: the path bytes and the content of each, and whether
\* the record lies whole inside buf
RECURSIVE PhysicalRecords(_, _)
PhysicalRecords(buf, offset) ==
    IF offset >= Len(buf) THEN <<>>
    ELSE IF offset + 8 > Len(buf) THEN <<[path |-> <<>>, content |-> <<>>, whole |-> FALSE]>>
    ELSE LET pathLength == getUint32(buf, offset)
             contentLength == getUint32(buf, offset + 4)
             end == offset + 8 + pathLength + contentLength
         IN  <<[path |-> Slice(buf, offset + 8, offset + 8 + pathLength),
                content |-> Slice(buf, offset + 8 + pathLength, end),
                whole |-> end <= Len(buf)]>>
             \o (IF end <= Len(buf) THEN PhysicalRecords(buf, end) ELSE <<>>)

\* the records of the entry stream of the container buf
EntriesOf(buf) == PhysicalRecords(buf, 4 + getUint32(buf, 0))

\* how many elements of the sequence s equal x
CountOf(s, x) == Cardinality({i \in 1..Len(s) : s[i] = x})

RECURSIVE SumOf(_)
SumOf(s) == IF s = <<>> THEN 0 ELSE Head(s) + SumOf(Tail(s))

\* the (path, size) pairs of the entries
EntrySizes(entries) ==
    [i \in 1..Len(entries) |-> [path |-> entries[i].path, size |-> Len(entries[i].content)]]

\* C13: metadata agrees with the entry stream. In the container built by
\* compressDirectory, metadata.files has as many elements as the stream has
\* entries, the (path, size) pairs listed are, as a multiset, the (path,
\* content length) pairs of the entries, and the sizes sum to the same total.
C13_MetadataAgrees ==
    stage = "encoded"
        => /\ Len(ListedFiles(finalBuffer)) = Len(EntriesOf(finalBuffer))
           /\ \A i \in 1..Len(EntriesOf(finalBuffer)) : EntriesOf(finalBuffer)[i].whole
           /\ \A x \in Range(ListedFiles(finalBuffer))
                      \cup Range(EntrySizes(EntriesOf(finalBuffer))) :
                  CountOf(ListedFiles(finalBuffer), x)
                      = CountOf(EntrySizes(EntriesOf(finalBuffer)), x)
           /\ SumOf([i \in 1..Len(ListedFiles(finalBuffer)) |->
                        ListedFiles(finalBuffer)[i].size])
                  = SumOf([i \in 1..Len(EntriesOf(finalBuffer)) |->
                              Len(EntriesOf(finalBuffer)[i].content)])

\* a container of two files of different sizes whose metadata lists them in
\* another order than the entry stream holds them
C13_Witness ==
    /\ stage = "encoded"
    /\ Len(files) = 2
    /\ StrLess(files[2].path, files[1].path)
    /\ Len(files[1].content) # Len(files[2].content)
    /\ ListedFiles(finalBuffer)[1].path = EntriesOf(finalBuffer)[2].path

\* the output path documented for the dataset file at path file: its path
\* relative to quran under the output directory, the extension .gz replaced
ExpectedOutput(file, OUT_DIR) ==
    LET rel == relative(ROOT_DIR, file)
    IN  join(OUT_DIR, IF endsWith(rel, GzExt)
                      THEN SubSeq(rel, 1, Len(rel) - Len(GzExt)) \o JsonExt
                      ELSE rel)

\* C14: every .gz file that a run of the extractor wrote was written under the
\* output directory at its path relative to quran with .gz replaced by .json,
\* whichever of --all, --path and --file selected it.
C14_DocumentedOutputPath ==
    stage = "extracted"
        => \A i \in 1..Len(gz.log) :
              gz.log[i].outputPath = ExpectedOutput(gz.log[i].file, gz.argv.out)

\* the byte sequence a precedes b in lexicographic order
BytesLess(a, b) ==
    \E i \in 1..Min(Len(a), Len(b)) + 1 :
        /\ SubSeq(a, 1, i - 1) = SubSeq(b, 1, i - 1)
        /\ IF i > Len(a) THEN i <= Len(b)
           ELSE i <= Len(b) /\ a[i] < b[i]

\* the metadata JSON of the container built from files at the clock reading
MetadataJsonBytes == textToUint8Array(JSONstringify(ArchiveMetadata(files, created)))

C16_WalkComplete ==
    (stage = "packing" /\ Len(pack.done) >= 2)
        => /\ Len(pack.files) = Cardinality(TreeAt(pack.before, FsKey(pack.directoryPath)))
           /\ Range(pack.files) = TreeAt(pack.before, FsKey(pack.directoryPath))

\* the metadata bytes of the container buf, as far as buf holds them
MetadataBytes(buf) == Slice(buf, 4, 4 + getUint32(buf, 0))

\* b is well-formed UTF-8: decoding it replaces nothing, so encoding the
\* decoded text gives b back
WellFormedUtf8(b) == textToUint8Array(Utf8DecodeAll(b)) = b

\* b is a JSON text: well-formed UTF-8 that the JSON grammar derives (a byte
\* order mark is not part of the grammar)
ValidJsonBytes(b) == WellFormedUtf8(b) /\ JSONparse(Utf8DecodeAll(b)).ok

\* b is a JSON text whose value is an object with a list under "files"
HasFilesList(b) ==
    /\ ValidJsonBytes(b)
    /\ Member(JSONparse(Utf8DecodeAll(b)).v, <<102, 105, 108, 101, 115>>).t = "array"

\* C17: corrupt metadata is rejected before extraction. When the metadata
\* bytes of the container are not valid JSON, or the metadata has no files
\* list, the unpacker ends in an error and has written no file.
C17_CorruptMetadataRejected ==
    (/\ stage = "unpacked"
     /\ Len(decompressed) >= 4
     /\ ~HasFilesList(MetadataBytes(decompressed)))
        => /\ unpacked.status # "ok"
           /\ unpacked.log = <<>>
           /\ unpacked.fs = EmptyOut

\* the byte offset at which the record i of entries ends, the first record
\* beginning at start
RECURSIVE EntryEnd(_, _, _)
EntryEnd(entries, i, start) ==
    IF i = 0 THEN start
    ELSE EntryEnd(entries, i - 1, start) + 8 + Len(entries[i].path) + Len(entries[i].content)

\* how many records of the container finalBuffer lie whole before the cut
WholeBefore(cut) ==
    Cardinality({i \in 1..Len(EntriesOf(finalBuffer)) :
                    EntryEnd(EntriesOf(finalBuffer), i, MetaEnd) <= cut})

\* the cut falls inside a record: in its header, its path or its content
CutInsideEntry(cut) ==
    /\ cut > MetaEnd
    /\ \A i \in 1..Len(EntriesOf(finalBuffer)) :
          EntryEnd(EntriesOf(finalBuffer), i, MetaEnd) # cut

\* C18: partial-write policy. When the container holds k whole entries and
\* then an entry cut short in its header, path or content, the unpacker
\* writes the k earlier files in full, writes nothing for the entry cut short,
\* and ends in an error.
C18_PartialWritePolicy ==
    (/\ stage = "unpacked"
     /\ tamper.kind = "cut"
     /\ CutInsideEntry(tamper.at))
        => /\ unpacked.status # "ok"
           /\ Len(unpacked.log) = WholeBefore(tamper.at)
           /\ \A i \in 1..WholeBefore(tamper.at) :
                 /\ unpacked.log[i].path = uint8ArrayToText(EntriesOf(finalBuffer)[i].path)
                 /\ unpacked.log[i].content = EntriesOf(finalBuffer)[i].content

\* the step changes the archive file or anything else on disk
DiskChanges == disk' # disk

\* at the moment of the write every input file has been read and the container
\* is built from them and compressed
ReadyToWrite ==
    /\ pack.pc = "write"
    /\ pack.done = <<"stat", "read", "build", "gzip">>
    /\ pack.files = readFilesRecursively(pack.before, pack.directoryPath,
                                         pack.directoryPath, pack.reverse)
    /\ Len(EntriesOf(pack.finalBuffer)) = Len(pack.files)
    /\ gunzipSync(pack.compressed) = [ok |-> TRUE, data |-> pack.finalBuffer]

\* C19: pack ordering of effects. In every run of compressDirectory the disk
\* changes in one step only, the first and only write of the archive file,
\* taken after every input file was read and the container built and
\* compressed; a run that ends in an error before that step leaves the disk
\* as it found it; the success statistics are reported only after the write
\* succeeded, and a run that ends in an error reports none.
C19_PackOrdering ==
    [][/\ DiskChanges
          => /\ ReadyToWrite
             /\ pack.writes = 0 /\ pack'.writes = 1
             /\ pack'.pc = "report"
             /\ disk' = writeFileSync(disk, pack.outputFile, pack.compressed).fs
       /\ stage' = "packing"
          => /\ pack'.writes <= 1
             /\ (pack'.pc = "exit1" /\ pack'.writes = 0) => disk' = pack'.before
             /\ pack'.pc = "exit1" => ~pack'.stats.reported
             /\ pack'.stats.reported
                   => /\ pack'.writes = 1
                      /\ pack'.done = <<"stat", "read", "build", "gzip", "write", "report">>
                      /\ disk'.files[FsKey(pack'.outputFile)] = pack'.compressed]_vars

\* a run over two files that wrote the archive and reported
C19_Witness ==
    /\ stage = "packing"
    /\ pack.pc = "done"
    /\ pack.writes = 1
    /\ pack.stats.reported
    /\ disk # pack.before
    /\ Len(pack.files) = 2

\* a run that ended in an error at the write, after the container was built
C19_FailedWrite ==
    /\ stage = "packing"
    /\ pack.pc = "exit1"
    /\ pack.done = <<"stat", "read", "build", "gzip">>
    /\ disk = pack.before

\* C20: pack statistics. The original byte total of the success report (the
\* denominator of the percentage saved) is the sum of the content byte
\* lengths of the files packed.
C20_OriginalSizeIsContentSum ==
    (stage = "packing" /\ pack.stats.reported)
        => pack.stats.originalSize
               = SumOf([i \in 1..Len(pack.files) |-> Len(pack.files[i].content)])

\* C21: the extraction loop terminates on every buffer, stated by its variant.
\* Each turn either ends the loop in an error or moves the read offset on by
\* at least 8 bytes; the loop is left as soon as the offset has reached the
\* length of the buffer; so the turns taken never exceed
\* ceil(bufferLength / 8), and after a turn that did not throw they are at
\* most an eighth of the bytes passed.
C21_LoopTerminates ==
    /\ [][loop'.turns # loop.turns
             => \/ loop'.pc = "exit1"
                \/ loop'.offset >= loop.offset + 8]_vars
    /\ [](/\ 8 * loop.turns <= Len(decompressed) + 7
          /\ loop.pc = "loop" => 8 * loop.turns <= loop.offset - MetaEnd
          /\ loop.pc = "done" => loop.offset >= Len(decompressed))
    /\ [][loop.pc \in {"done", "exit1"} => UNCHANGED loop]_vars

\* the loop left normally after two turns over a container as it was built
C21_Witness ==
    /\ stage = "looping"
    /\ tamper.kind = "none"
    /\ loop.pc = "done"
    /\ loop.turns = 2
    /\ Len(loop.log) = 2

\* C23: cleanPath is an idempotent normalisation. For every path string p,
\* cleanPath(cleanPath(p)) equals cleanPath(p); and cleanPath leaves unchanged
\* every path that is the root quran or quran followed by non-empty segments
\* joined by single slashes (a second segment that begins with quran
\* included).
AlreadyClean(p) ==
    /\ \A i \in 1..Len(SplitSlash(p)) : SplitSlash(p)[i] # <<>>
    /\ SplitSlash(p)[1] = ROOT_DIR

C23_CleanPathIdempotent ==
    stage = "cleaning" =>
        /\ view.pc = "twice" => view.twice = view.once
        /\ (view.pc # "path" /\ AlreadyClean(view.path)) => view.once = view.path

\* the two halves of C23, each on its own
C23_Idempotent == (stage = "cleaning" /\ view.pc = "twice") => view.twice = view.once

C23_FixedPoints ==
    (stage = "cleaning" /\ view.pc # "path" /\ AlreadyClean(view.path))
        => view.once = view.path

\* what is left of the fixed points: the clean paths whose second segment
\* does not begin with quran
C23_FixedPointsElsewhere ==
    (/\ stage = "cleaning" /\ view.pc # "path" /\ AlreadyClean(view.path)
     /\ ~startsWith(view.path, RootRoot))
        => view.once = view.path

\* the rendering of the hash h: what handleRoute puts into the content
\* container for h when nothing else is on the way
RenderingOf(h) ==
    IF endsWith(h, GzExt)
    THEN IF ~SiteResponse(FileUrl(h)).ok THEN ErrorView("Failed to load file: 404")
         ELSE FileView(h, SiteResponse(FileUrl(h)))
    ELSE DirectoryView(cleanPath(h),
             detectDirectoryContents(DirectoryUrl(cleanPath(h)),
                                     SiteResponse(DirectoryUrl(cleanPath(h)))))

\* no call of handleRoute is due and no fetch is on the way
Settled == stage = "viewing" /\ view.events = 0 /\ view.pending = <<>>

\* C22: viewer routing under interleaving. After any sequence of hash
\* changes, once every directory listing and file fetch started by handleRoute
\* has completed, in whatever order, the content container shows the rendering
\* for the most recent hash, never that of an earlier hash whose fetch
\* finished later.
C22_ShowsLatestHash == Settled => view.content = RenderingOf(view.hash)

\* the same when no call was started while another waited for the network
C22_ShowsLatestHashInTurn ==
    (Settled /\ ~view.overlapped) => view.content = RenderingOf(view.hash)

====
